---- MODULE Spec2Model ----
(***************************************************************************)
(* A model of slurm-ops-manager: the systemctl wrappers, the config        *)
(* renderer, the munge key handling and the configure/restart flow of the  *)
(* manager revisions found in the repository.                              *)
(*                                                                         *)
(* Revisions (variable impl):                                              *)
(*   "base"    slurm_ops_manager/slurm_ops_base.py  SlurmOpsManagerBase    *)
(*   "ops"     slurm_ops_manager/slurm_ops.py       SlurmOpsManager and    *)
(*             its SlurmOpsManagerBase                                     *)
(*   "tar"     slurm_ops_manager/slurm_tar.py (and slurm_tar_ops.py,       *)
(*             slurm_snap_ops.py) behind slurm_main_ops.SlurmOpsManager    *)
(*   "install" slurm_install_manager/slurm_install_ops.py                  *)
(*                                                                         *)
(* Strings that the code splits, joins or decodes are sequences of atoms   *)
(* (one-element sequences for plain words), so that split/join and base64  *)
(* are computed, not assumed.                                              *)
(***************************************************************************)
EXTENDS Integers, Sequences, FiniteSets, TLC

VARIABLES
    impl,               \* which manager revision this object is
    component,          \* self._slurm_component
    template_exists,    \* does the component's template file exist
    conf,               \* the target config file on the host
    munge_key_file,     \* bytes of the munge key file
    active,             \* systemd: is the Slurm component unit active
    slurm_installed,    \* StoredState.slurm_installed
    slurm_version_set,  \* StoredState.slurm_version_set
    slurm_started,      \* StoredState.slurm_started (slurm_tar.py)
    last,               \* the last manager call: argument, effects, outcome
    os_release,         \* the host's operating system
    accounts,           \* which of the slurm group and user exist
    files,              \* files and directories the installer leaves
    unit_enabled,       \* systemd: is the component unit enabled
    setup_pc,           \* "idle", or where a running setup_system stands
    polls,              \* sleep(1) calls of the running setup_system
    write_pc,           \* "idle", or "unlinked" inside a config write
    pending,            \* the running config write: target before, result
    seen,               \* what a reader of the target last found
    addons              \* flags and repository files of the add-on installers

\* the state the installer works on
installer_vars ==
    <<os_release, accounts, files, unit_enabled, setup_pc, polls>>

\* the state of a config write seen statement by statement
writer_vars == <<write_pc, pending, seen>>

vars == <<impl, component, template_exists, conf, munge_key_file, active,
          slurm_installed, slurm_version_set, slurm_started, last,
          os_release, accounts, files, unit_enabled, setup_pc, polls,
          write_pc, pending, seen, addons>>

(***************************************************************************)
(* Bounds                                                                  *)
(***************************************************************************)
\* longest comma separated parameter list a caller passes
MaxParams == 2

\* sleep(1) calls of one wait loop that are followed
MaxPolls == 3

\* tools that fail in one installer call
MaxFailures == 2

(***************************************************************************)
(* Strings                                                                 *)
(***************************************************************************)
\* str(x) of a plain word: a one-atom string
Str(w) == <<w>>

Comma == ","

RECURSIVE SplitFrom(_, _, _)
\* s.split(","): cur is the token being read, from position i on
SplitFrom(s, i, cur) ==
    IF i > Len(s) THEN <<cur>>
    ELSE IF s[i] = Comma THEN <<cur>> \o SplitFrom(s, i + 1, <<>>)
    ELSE SplitFrom(s, i + 1, Append(cur, s[i]))

Split(s) == SplitFrom(s, 1, <<>>)

RECURSIVE Join(_)
\* ",".join(tokens)
Join(tokens) ==
    IF tokens = <<>> THEN <<>>
    ELSE IF Len(tokens) = 1 THEN tokens[1]
    ELSE tokens[1] \o <<Comma>> \o Join(Tail(tokens))

Range(s) == {s[i] : i \in DOMAIN s}

\* the orders list(set(xs)) can come out in: every duplicate-free listing
ListOfSet(S) ==
    {q \in [1..Cardinality(S) -> S] : Range(q) = S}

(***************************************************************************)
(* systemctl wrappers                                                      *)
(***************************************************************************)
Impls == {"base", "ops", "tar", "install"}

Components == {"slurmd", "slurmctld", "slurmdbd", "slurmrestd"}

\* operations a caller may hand to the wrapper
Operations ==
    {"enable", "start", "stop", "restart", "is-active", "daemon-reload",
     "status", "disable"}

\* a wrapper that hands every operation on to systemctl
supported_systemctl_cmds_passthrough(i) == Operations

\* a wrapper whose list lost "restart"
supported_systemctl_cmds_short(i) ==
    IF i = "ops" THEN {"enable", "start", "stop", "is-active"}
    ELSE {"enable", "start", "stop"}

supported_systemctl_cmds(i) ==
    IF i = "ops"
    THEN {"enable", "start", "stop", "restart", "is-active"}
    ELSE {"enable", "start", "stop", "restart"}

\* one effect on the host: a subprocess or a file operation
Ev(cmd, arg, target) == [cmd |-> cmd, arg |-> arg, target |-> target]

\* commands that go through the subprocess layer
SubprocessCmds == {"systemctl", "chown", "service", "version"}

IsSubprocess(e) == e.cmd \in SubprocessCmds

\* systemd: the unit's state after `systemctl op` ended with exit code rc
UnitAfter(op, rc, was) ==
    CASE op \in {"start", "restart"} -> (rc = 0)
      [] op = "stop" -> IF rc = 0 THEN FALSE ELSE was
      [] OTHER -> was

\* exit codes systemctl can end with for op on a unit in state was
ExitCodes(op, was) ==
    IF op = "is-active" THEN {IF was THEN 0 ELSE 3} ELSE {0, 1}

NoContext == [type |-> "NoneType", items |-> <<>>]

\* the set_default values of Infiniband, NvidiaGPU and MPI, and no
\* repository file written
NoAddons ==
    [ib_installed |-> FALSE, ib_repo_configured |-> FALSE,
     ib_repo_file |-> "none", gpu_installed |-> FALSE,
     gpu_repo_configured |-> FALSE, gpu_repo_file |-> "none",
     mpi_installed |-> FALSE]

Call(op, operation, context, context_after, outcome, events, ret) ==
    [op |-> op, operation |-> operation, context |-> context,
     context_after |-> context_after, outcome |-> outcome,
     events |-> events, ret |-> ret, observed |-> FALSE,
     recheck |-> "none", arg |-> <<>>]

\* what one wrapper call does: <<outcome, events, ret, unit state after>>
SystemctlResult(i, operation, rc, was) ==
    IF operation \notin supported_systemctl_cmds(i)
    THEN [outcome |-> "Exception", events |-> <<>>, ret |-> "none",
          active |-> was]
    ELSE [outcome |-> "ok",
          events |-> <<Ev("systemctl", operation, "slurm")>>,
          ret |-> IF i = "base" THEN (IF rc = 0 THEN "True" ELSE "False")
                  ELSE IF i = "ops" THEN (IF rc = 0 THEN "0" ELSE "nonzero")
                  ELSE "none",
          active |-> UnitAfter(operation, rc, was)]

slurm_systemctl(operation, rc) ==
    \E r \in {SystemctlResult(impl, operation, rc, active)} :
      /\ impl \in {"base", "ops", "tar"}
      /\ active' = r.active
      /\ slurm_started' =
           IF impl = "tar" /\ r.outcome = "ok" /\ operation = "start"
           THEN TRUE ELSE slurm_started
      /\ last' = Call("slurm_systemctl", operation, NoContext, NoContext,
                      r.outcome, r.events, r.ret)
      /\ UNCHANGED <<impl, component, template_exists, conf, munge_key_file,
                     slurm_installed, slurm_version_set>>
      /\ UNCHANGED <<installer_vars, writer_vars, addons>>

(***************************************************************************)
(* Config renderer                                                         *)
(***************************************************************************)
\* a merge in which the earlier mapping wins: {**b, **a}
DictMerge_first_wins(a, b) ==
    [k \in (DOMAIN a) \cup (DOMAIN b) |->
        IF k \in DOMAIN a THEN a[k] ELSE b[k]]

\* Python's {**a, **b}: on a key of both, the later mapping b wins
DictMerge(a, b) ==
    [k \in (DOMAIN a) \cup (DOMAIN b) |->
        IF k \in DOMAIN b THEN b[k] ELSE a[k]]

DictPop(d, key) == [k \in (DOMAIN d) \ {key} |-> d[k]]

\* self._slurmctld_parameters
slurmctld_parameters_default == <<Str("enable_configless")>>

\* common_config of write_slurm_config, before the caller's context is read
common_config(i) ==
    IF i = "base"
    THEN [munge_socket |-> Str("/var/run/munge/munge.socket.2"),
          mail_prog |-> Str("/usr/bin/mailx"),
          slurm_state_dir |-> Str("/var/spool/slurmctld"),
          slurm_spool_dir |-> Str("/var/spool/slurmd"),
          slurm_plugin_dir |-> Str("/usr/lib64/slurm"),
          slurmdbd_log_file |-> Str("/var/log/slurm/slurmdbd.log"),
          slurmd_log_file |-> Str("/var/log/slurm/slurmd.log"),
          slurmctld_log_file |-> Str("/var/log/slurm/slurmctld.log"),
          slurmdbd_pid_file |-> Str("/var/run/slurmdbd.pid"),
          slurmd_pid_file |-> Str("/var/run/slurmd.pid"),
          slurmctld_pid_file |-> Str("/var/run/slurmctld.pid"),
          jwt_rsa_key_file |-> Str("/var/spool/slurmctld/jwt_hs256.key"),
          slurmctld_parameters |-> Join(slurmctld_parameters_default),
          slurm_plugstack_conf |-> Str("/etc/slurm/plugstack.d/plugstack.conf"),
          slurm_user |-> Str("slurm"),
          slurmd_user |-> Str("root")]
    ELSE IF i = "ops"
    THEN [munge_socket |-> Str("/var/run/munge/munge.socket.2"),
          mail_prog |-> Str("/usr/bin/mail"),
          slurm_state_dir |-> Str("/var/lib/slurmd"),
          slurm_spool_dir |-> Str("/var/spool/slurmd"),
          slurm_plugin_dir |-> Str("/usr/local/lib/slurm"),
          slurmdbd_log_file |-> Str("/var/log/slurm/slurmdbd.log"),
          slurmd_log_file |-> Str("/var/log/slurm/slurmd.log"),
          slurmctld_log_file |-> Str("/var/log/slurm/slurmctld.log"),
          slurmdbd_pid_file |-> Str("/srv/slurm/slurmdbd.pid"),
          slurmd_pid_file |-> Str("/srv/slurm/slurmd.pid"),
          slurmctld_pid_file |-> Str("/srv/slurm/slurmctld.pid"),
          slurm_plugstack_conf |-> Str("/etc/slurm/plugstack.d/plugstack.conf"),
          slurm_user |-> Str("slurm")]
    ELSE <<>>

\* the list handed to set() when the caller's parameters are merged
MergedParameterList(i, context_value) ==
    Split(common_config(i)["slurmctld_parameters"]) \o Split(context_value)

\* does write_slurm_config take the merge branch: context.get(...) is truthy
MergesParameters(i, context) ==
    /\ i = "base"
    /\ context.type = "dict"
    /\ "slurmctld_parameters" \in DOMAIN context.items
    /\ context.items["slurmctld_parameters"] # <<>>

\* the merged list without set(): duplicates are kept
ParameterOrders_list(i, context) ==
    IF MergesParameters(i, context)
    THEN {MergedParameterList(i, context.items["slurmctld_parameters"])}
    ELSE {<<>>}

\* the orders in which list(set(...)) may list the merged parameters
ParameterOrders(i, context) ==
    IF MergesParameters(i, context)
    THEN ListOfSet(Range(MergedParameterList(
                             i, context.items["slurmctld_parameters"])))
    ELSE {<<>>}

AbsentFile == [exists |-> FALSE, text |-> <<>>, mode |-> "none"]

\* the mapping handed to template.render() by revision i
TemplateInput(i, items, cc) ==
    IF i \in {"base", "ops"} THEN DictMerge(items, cc) ELSE items

\* target.unlink() if it exists, target.write_text(...), chmod, chown
WriteEvents(i, comp, before) ==
    (IF before.exists THEN <<Ev("unlink", "", "conf")>> ELSE <<>>)
    \o <<Ev("write_text", "", "conf")>>
    \o (IF i = "base" /\ comp = "slurmdbd"
        THEN <<Ev("chmod", "0600", "conf")>> ELSE <<>>)
    \o (IF i = "base" THEN <<Ev("chown", "", "conf")>> ELSE <<>>)

\* the merge, the render and the replacement of the target;
\* order is the listing list(set(...)) produced
RenderAndWrite(i, comp, context, order, before) ==
    LET merges == MergesParameters(i, context)
        cc == IF merges
              THEN [common_config(i) EXCEPT
                       !["slurmctld_parameters"] = Join(order)]
              ELSE common_config(i)
        items == IF merges
                 THEN DictPop(context.items, "slurmctld_parameters")
                 ELSE context.items
    IN [outcome |-> "ok",
        events |-> WriteEvents(i, comp, before),
        conf |-> [exists |-> TRUE,
                  text |-> TemplateInput(i, items, cc),
                  mode |-> IF i = "base" /\ comp = "slurmdbd"
                           THEN "0600" ELSE "default"],
        context_after |-> [context EXCEPT !.items = items]]

Failed(exc, context, before) ==
    [outcome |-> exc, events |-> <<>>, conf |-> before,
     context_after |-> context]

WriteConfigResult_unchecked(i, comp, tmpl, context, order, before) ==
    IF ~tmpl THEN Failed("FileNotFoundError", context, before)
    ELSE RenderAndWrite(i, comp, context, order, before)

\* write_slurm_config (base, ops) and _write_config (tar)
WriteConfigResult(i, comp, tmpl, context, order, before) ==
    IF context.type # "dict" THEN Failed("TypeError", context, before)
    ELSE IF ~tmpl THEN Failed("FileNotFoundError", context, before)
    ELSE RenderAndWrite(i, comp, context, order, before)

\* SlurmInstallManager.write_config: fields says whether the template text
\* has replacement fields for str.format
InstallWriteConfigResult(tmpl, context, fields, before) ==
    IF context.type = "dict"
    THEN \* self._hostname is never assigned
         Failed("AttributeError", context, before)
    ELSE
      LET unlinked == IF before.exists THEN <<Ev("unlink", "", "conf")>>
                      ELSE <<>>
      IN IF ~tmpl
         THEN [outcome |-> "FileNotFoundError", events |-> unlinked,
               conf |-> AbsentFile, context_after |-> context]
         ELSE IF fields
         THEN [outcome |-> "KeyError", events |-> unlinked,
               conf |-> AbsentFile, context_after |-> context]
         ELSE [outcome |-> "ok",
               events |-> unlinked \o <<Ev("write_text", "", "conf")>>,
               conf |-> [exists |-> TRUE, text |-> <<>>,
                         mode |-> "default"],
               context_after |-> context]

ConfigResult(i, comp, tmpl, context, order, fields, before) ==
    IF i = "install"
    THEN InstallWriteConfigResult(tmpl, context, fields, before)
    ELSE WriteConfigResult(i, comp, tmpl, context, order, before)

(***************************************************************************)
(* Munge key: base64                                                       *)
(***************************************************************************)
B64Alphabet ==
    <<"A", "B", "C", "D", "E", "F", "G", "H", "I", "J", "K", "L", "M",
      "N", "O", "P", "Q", "R", "S", "T", "U", "V", "W", "X", "Y", "Z",
      "a", "b", "c", "d", "e", "f", "g", "h", "i", "j", "k", "l", "m",
      "n", "o", "p", "q", "r", "s", "t", "u", "v", "w", "x", "y", "z",
      "0", "1", "2", "3", "4", "5", "6", "7", "8", "9", "+", "/">>

Pad == "="

Sextet(c) == (CHOOSE i \in DOMAIN B64Alphabet : B64Alphabet[i] = c) - 1

\* the data characters of a text: everything before the first '='
RECURSIVE B64Data(_)
B64Data(text) ==
    IF text = <<>> \/ Head(text) = Pad THEN <<>>
    ELSE <<Head(text)>> \o B64Data(Tail(text))

\* binascii accepts the text: the data fills whole quanta, or the last
\* quantum holds 2 or 3 characters and is padded to 4
B64Valid(text) ==
    LET n == Len(B64Data(text))
        p == Len(text) - n
    IN CASE n % 4 = 0 -> TRUE
         [] n % 4 = 1 -> FALSE
         [] n % 4 = 2 -> p >= 2
         [] OTHER -> p >= 1

RECURSIVE B64DecodeData(_)
\* bytes of a run of data characters
B64DecodeData(d) ==
    IF Len(d) < 2 THEN <<>>
    ELSE
      LET a == Sextet(d[1])
          b == Sextet(d[2])
          b1 == a * 4 + (b \div 16)
      IN IF Len(d) = 2 THEN <<b1>>
         ELSE
           LET c == Sextet(d[3])
               b2 == (b % 16) * 16 + (c \div 4)
           IN IF Len(d) = 3 THEN <<b1, b2>>
              ELSE <<b1, b2, (c % 4) * 64 + Sextet(d[4])>>
                   \o B64DecodeData(SubSeq(d, 5, Len(d)))

\* b64decode(text.encode())
b64decode(text) == B64DecodeData(B64Data(text))

RECURSIVE b64encode(_)
\* b64encode(bytes).decode()
b64encode(bytes) ==
    IF bytes = <<>> THEN <<>>
    ELSE
      LET x == bytes[1]
          c1 == B64Alphabet[(x \div 4) + 1]
      IN IF Len(bytes) = 1
         THEN <<c1, B64Alphabet[(x % 4) * 16 + 1], Pad, Pad>>
         ELSE
           LET y == bytes[2]
               c2 == B64Alphabet[(x % 4) * 16 + (y \div 16) + 1]
           IN IF Len(bytes) = 2
              THEN <<c1, c2, B64Alphabet[(y % 16) * 4 + 1], Pad>>
              ELSE
                LET z == bytes[3]
                IN <<c1, c2, B64Alphabet[(y % 16) * 4 + (z \div 64) + 1],
                     B64Alphabet[(z % 64) + 1]>>
                   \o b64encode(SubSeq(bytes, 4, Len(bytes)))

(***************************************************************************)
(* Caller inputs                                                           *)
(***************************************************************************)
Absent == <<"<absent>">>

ParamWords == {Str("enable_configless"), Str("multiple_slurmd")}

\* comma separated parameter strings of up to MaxParams parameters; the
\* empty list gives the empty string
ParamStrings ==
    {Join(l) : l \in UNION {[1..n -> ParamWords] : n \in 0..MaxParams}}

\* base64 texts: b"AB" (padded), b"ABC", and one with incorrect padding
PaddedKey == <<"Q", "U", "I", "=">>

PlainKey == <<"Q", "U", "J", "D">>

BadKey == <<"Q", "Q", "=">>

Opt(S) == S \cup {Absent}

Present(f) == [k \in {x \in DOMAIN f : f[x] # Absent} |-> f[k]]

Dict(d) == [type |-> "dict", items |-> d]

NotADict == [type |-> "str", items |-> <<>>]

\* contexts for the renderer: with and without keys that the common
\* defaults also hold, and every parameter string
ConfigContexts ==
    {Dict(Present([slurm_user |-> su, mail_prog |-> mp,
                   slurmctld_parameters |-> sp,
                   cluster_name |-> Str("cluster1")])) :
        su \in Opt({Str("admin")}), mp \in Opt({Str("/bin/true")}),
        sp \in Opt(ParamStrings)}
    \cup {NoContext, NotADict}

\* contexts for the configure/restart flow: with a good, a bad and no
\* munge key, with a key the defaults also hold, and a non-mapping
LifecycleContexts ==
    {Dict([cluster_name |-> Str("cluster1"), munge_key |-> PaddedKey]),
     Dict([cluster_name |-> Str("cluster1"), munge_key |-> PlainKey,
           slurm_user |-> Str("admin")]),
     Dict([cluster_name |-> Str("cluster1"), munge_key |-> BadKey]),
     Dict([cluster_name |-> Str("cluster1")]),
     NotADict}

\* inputs a code path does not read are not enumerated
OnlyIf(reads, S, default) == IF reads THEN S ELSE {default}

(***************************************************************************)
(* write_slurm_config / _write_config / write_config                       *)
(***************************************************************************)
\* the name the revision gives its config writer
WriteOpName(i) ==
    CASE i = "install" -> "write_config"
      [] i = "tar" -> "_write_config"
      [] OTHER -> "write_slurm_config"

write_slurm_config(context, order, fields) ==
    \E w \in {ConfigResult(impl, component, template_exists, context, order,
                           fields, conf)} :
      /\ conf' = w.conf
      /\ last' = Call(WriteOpName(impl), "", context, w.context_after,
                      w.outcome, w.events, "none")
      /\ UNCHANGED <<impl, component, template_exists, munge_key_file,
                     active, slurm_installed, slurm_version_set,
                     slurm_started>>
      /\ UNCHANGED <<installer_vars, writer_vars, addons>>

(***************************************************************************)
(* The replacement of the target, statement by statement                   *)
(***************************************************************************)
NoPending == [before |-> AbsentFile, w |-> Failed("none", NoContext,
                                                  AbsentFile)]

\* the target replaced in one step, the old file staying until then
AfterUnlink_kept(before) == before

\* the target after `if target.exists(): target.unlink()`
AfterUnlink(before) == AbsentFile

\* what can go wrong after the unlink: the render of the template raises,
\* write_text cannot open the target, or it fails after creating it
WriteFailures == {"none", "render", "open", "write"}

\* the target after target.write_text(template.render(...))
AfterWrite(w, failure) ==
    CASE failure = "none" -> w.conf
      [] failure = "write" ->
           [exists |-> TRUE, text |-> <<>>, mode |-> "default"]
      [] OTHER -> AbsentFile

\* write_slurm_config / write_acct_gather_conf from the first statement to
\* the unlink of the target
write_config_unlink(context, order) ==
    \E w \in {WriteConfigResult(impl, component, template_exists, context,
                                order, conf)} :
      /\ impl \in {"base", "ops", "tar"}
      /\ write_pc = "idle"
      /\ IF w.outcome = "ok"
         THEN /\ conf' = AfterUnlink(conf)
              /\ write_pc' = "unlinked"
              /\ pending' = [before |-> conf, w |-> w]
              /\ last' = Call(WriteOpName(impl), "", context,
                              w.context_after, "running",
                              IF conf.exists
                              THEN <<Ev("unlink", "", "conf")>> ELSE <<>>,
                              "none")
         ELSE /\ last' = Call(WriteOpName(impl), "", context,
                              w.context_after, w.outcome, w.events, "none")
              /\ UNCHANGED <<conf, write_pc, pending>>
      /\ UNCHANGED <<impl, component, template_exists, munge_key_file,
                     active, slurm_installed, slurm_version_set,
                     slurm_started, seen>>
      /\ UNCHANGED <<installer_vars, addons>>

\* the rest of the write: render, write_text, chmod and chown
write_config_write(failure) ==
    /\ write_pc = "unlinked"
    /\ conf' = AfterWrite(pending.w, failure)
    /\ last' = CASE failure = "none" ->
                      [last EXCEPT !.outcome = "ok",
                                   !.events = pending.w.events]
                 [] failure = "render" ->
                      [last EXCEPT !.outcome = "UndefinedError"]
                 [] OTHER ->
                      [last EXCEPT !.outcome = "OSError",
                                   !.events = @ \o <<Ev("write_text", "",
                                                        "conf")>>]
    /\ write_pc' = "idle"
    /\ pending' = [NoPending EXCEPT !.before = pending.before]
    /\ UNCHANGED <<impl, component, template_exists, munge_key_file,
                   active, slurm_installed, slurm_version_set,
                   slurm_started, seen>>
    /\ UNCHANGED <<installer_vars, addons>>

\* another process of the host, a Slurm daemon, looks for the target
read_config ==
    /\ seen' = IF conf.exists THEN "file" ELSE "no file"
    /\ UNCHANGED <<impl, component, template_exists, conf, munge_key_file,
                   active, slurm_installed, slurm_version_set,
                   slurm_started, last, write_pc, pending>>
    /\ UNCHANGED <<installer_vars, addons>>

(***************************************************************************)
(* write_munge_key / get_munge_key                                         *)
(***************************************************************************)
\* slurm_config.get('munge_key', ''): a missing key read as the empty text
MungeKeyArgument_get_default(context) ==
    IF "munge_key" \in DOMAIN context.items
    THEN [outcome |-> "ok", value |-> context.items["munge_key"]]
    ELSE [outcome |-> "ok", value |-> <<>>]

\* slurm_config['munge_key'], evaluated by render_config_and_restart
MungeKeyArgument(context) ==
    IF "munge_key" \in DOMAIN context.items
    THEN [outcome |-> "ok", value |-> context.items["munge_key"]]
    ELSE [outcome |-> "KeyError", value |-> <<>>]

\* key = b64decode(munge_key.encode()); path.write_bytes(key)
WriteMungeKeyResult(munge_key, before) ==
    IF ~B64Valid(munge_key)
    THEN [outcome |-> "binascii.Error", events |-> <<>>, key |-> before]
    ELSE [outcome |-> "ok",
          events |-> <<Ev("write_bytes", "", "munge_key")>>,
          key |-> b64decode(munge_key)]

\* the key file's bytes handed back as text, with no encoding
GetMungeKeyResult_raw(file) == file

\* b64encode(path.read_bytes()).decode()
GetMungeKeyResult(file) == b64encode(file)

\* base64 texts a caller hands to write_munge_key: encodings of zero to
\* five bytes, texts whose last character carries stray bits, a text with
\* surplus padding, and texts the decoder rejects
MungeKeyTexts ==
    {<<>>, <<"Q", "Q", "=", "=">>, PaddedKey, PlainKey,
     <<"Q", "U", "J", "D", "Q", "Q", "=", "=">>,
     <<"Q", "U", "J", "D", "Q", "U", "I", "=">>,
     <<"Q", "R", "=", "=">>, <<"Q", "U", "J", "=">>,
     <<"Q", "U", "J", "D", "=">>,
     BadKey, <<"Q">>, <<"Q", "U", "I">>}

write_munge_key(munge_key) ==
    \E w \in {WriteMungeKeyResult(munge_key, munge_key_file)} :
      /\ impl \in {"base", "ops"}
      /\ munge_key_file' = w.key
      /\ last' = [Call("write_munge_key", "", NoContext, NoContext,
                       w.outcome, w.events, "none")
                  EXCEPT !.arg = munge_key]
      /\ UNCHANGED <<impl, component, template_exists, conf, active,
                     slurm_installed, slurm_version_set, slurm_started>>
      /\ UNCHANGED <<installer_vars, writer_vars, addons>>

get_munge_key ==
    /\ impl \in {"base", "ops", "tar"}
    /\ last' = Call("get_munge_key", "", NoContext, NoContext, "ok",
                    <<Ev("read_bytes", "", "munge_key")>>,
                    GetMungeKeyResult(munge_key_file))
    /\ UNCHANGED <<impl, component, template_exists, conf, munge_key_file,
                   active, slurm_installed, slurm_version_set,
                   slurm_started>>
    /\ UNCHANGED <<installer_vars, writer_vars, addons>>

(***************************************************************************)
(* render_config_and_restart                                               *)
(***************************************************************************)
\* a choice that ignores the unit's state
StartOperation_always_start(i, is_active) == "start"

\* the start-type operation the call issues on the component unit
StartOperation(i, is_active) ==
    IF i = "ops" THEN "restart"
    ELSE IF is_active THEN "restart" ELSE "start"

\* the unit restarted before anything is written
RenderSteps_start_first(i) ==
    IF i = "ops"
    THEN <<"check_type", "start_or_restart", "write_slurm_config",
           "write_munge_key", "restart_munged", "check_active",
           "set_version">>
    ELSE <<"check_type", "is_active", "start_or_restart",
           "write_slurm_config", "write_munge_key", "restart_munged",
           "check_active">>

\* the re-check left out
RenderSteps_no_recheck(i) ==
    IF i = "ops"
    THEN <<"check_type", "write_slurm_config", "start_or_restart",
           "write_munge_key", "restart_munged", "set_version">>
    ELSE <<"check_type", "write_slurm_config", "write_munge_key",
           "restart_munged", "is_active", "start_or_restart">>

\* the version reported before the unit is started and re-checked
RenderSteps_version_first(i) ==
    IF i = "ops"
    THEN <<"check_type", "write_slurm_config", "set_version",
           "start_or_restart", "write_munge_key", "restart_munged",
           "check_active">>
    ELSE <<"check_type", "write_slurm_config", "write_munge_key",
           "restart_munged", "is_active", "start_or_restart",
           "check_active">>

\* the statements of render_config_and_restart, in program order
RenderSteps(i) ==
    IF i = "ops"
    THEN <<"check_type", "write_slurm_config", "start_or_restart",
           "write_munge_key", "restart_munged", "check_active",
           "set_version">>
    ELSE <<"check_type", "write_slurm_config", "write_munge_key",
           "restart_munged", "is_active", "start_or_restart",
           "check_active">>

Raise(st, exc) == [st EXCEPT !.outcome = exc]

Emit(st, evs) == [st EXCEPT !.events = @ \o evs]

\* one statement of render_config_and_restart on the running state st;
\* in holds the call's inputs
RenderStep(step, st, in) ==
    CASE step = "check_type" ->
           IF st.context.type # "dict" THEN Raise(st, "TypeError") ELSE st
      [] step = "write_slurm_config" ->
           LET w == WriteConfigResult(in.i, in.comp, in.tmpl, st.context,
                                      in.order, st.conf)
           IN [st EXCEPT !.conf = w.conf, !.context = w.context_after,
                         !.events = @ \o w.events, !.outcome = w.outcome]
      [] step = "write_munge_key" ->
           LET arg == MungeKeyArgument(st.context)
           IN IF arg.outcome # "ok" THEN Raise(st, arg.outcome)
              ELSE LET w == WriteMungeKeyResult(arg.value, st.key)
                   IN [st EXCEPT !.key = w.key,
                                 !.events = @ \o w.events,
                                 !.outcome = w.outcome]
      [] step = "restart_munged" ->
           Emit(st, <<Ev(IF in.i = "ops" THEN "systemctl" ELSE "service",
                         "restart", "munge")>>)
      [] step = "is_active" ->
           Emit(st, <<Ev("systemctl", "is-active", "slurm")>>)
      [] step = "start_or_restart" ->
           LET op == StartOperation(in.i, st.active)
               r == SystemctlResult(in.i, op, in.rc, st.active)
           IN [st EXCEPT !.active = r.active,
                         !.events = @ \o r.events,
                         !.observed = st.active,
                         !.started = (in.i = "tar" /\ op = "start")]
      [] step = "check_active" ->
           LET checked ==
                 [st EXCEPT
                    !.recheck = IF st.active THEN "active" ELSE "inactive",
                    !.events = @ \o <<Ev("systemctl", "is-active", "slurm")>>]
           IN IF ~st.active THEN Raise(checked, "Exception") ELSE checked
      [] step = "set_version" ->
           IF st.version_set \/ ~st.conf.exists THEN st
           ELSE IF ~in.version_ok
           THEN Raise(Emit(st, <<Ev("version", "-V", "slurm")>>),
                      "SystemExit")
           ELSE [st EXCEPT
                   !.version_set = TRUE,
                   !.events = @ \o <<Ev("version", "-V", "slurm"),
                                     Ev("set_workload_version", "", "unit")>>]

RECURSIVE RunStepsOf(_, _, _, _)
\* run the statements with Step until one of them leaves outcome "ok"
RunStepsOf(Step(_, _, _), steps, st, in) ==
    IF steps = <<>> \/ st.outcome # "ok" THEN st
    ELSE LET next == CHOOSE x \in {Step(Head(steps), st, in)} : TRUE
         IN RunStepsOf(Step, Tail(steps), next, in)

RECURSIVE RunSteps(_, _, _)
\* run the statements until one raises
RunSteps(steps, st, in) ==
    IF steps = <<>> \/ st.outcome # "ok" THEN st
    ELSE LET next == CHOOSE x \in {RenderStep(Head(steps), st, in)} : TRUE
         IN RunSteps(Tail(steps), next, in)

render_config_and_restart(slurm_config, rc, version_ok) ==
    LET in == [i |-> impl, comp |-> component, tmpl |-> template_exists,
               order |-> <<>>, rc |-> rc, version_ok |-> version_ok]
        st0 == [context |-> slurm_config, conf |-> conf,
                key |-> munge_key_file, active |-> active,
                observed |-> active, version_set |-> slurm_version_set,
                recheck |-> "none", started |-> FALSE, events |-> <<>>,
                outcome |-> "ok"]
    IN \E st \in {RunSteps(RenderSteps(impl), st0, in)} :
         /\ impl \in {"ops", "tar"}
         /\ conf' = st.conf
         /\ munge_key_file' = st.key
         /\ active' = st.active
         /\ slurm_version_set' = st.version_set
         /\ slurm_started' = (slurm_started \/ st.started)
         /\ last' = [Call("render_config_and_restart", "", slurm_config,
                          st.context, st.outcome, st.events, "none")
                     EXCEPT !.observed = st.observed,
                            !.recheck = st.recheck]
         /\ UNCHANGED <<impl, component, template_exists, slurm_installed>>
         /\ UNCHANGED <<installer_vars, writer_vars, addons>>

(***************************************************************************)
(* install                                                                 *)
(***************************************************************************)
\* the flag set before the setup sequence has run
prepare_system_for_slurm_flag_first(returns) ==
    /\ impl \in {"ops", "tar", "install"}
    /\ slurm_installed' = TRUE
    /\ last' = Call("prepare_system_for_slurm", "", NoContext, NoContext,
                    IF returns THEN "ok" ELSE "raised",
                    <<Ev("setup_system", "", "host")>>, "none")
    /\ UNCHANGED <<impl, component, template_exists, conf, munge_key_file,
                   active, slurm_version_set, slurm_started>>
    /\ UNCHANGED <<installer_vars, writer_vars, addons>>

\* the flag following the outcome of the latest setup sequence
prepare_system_for_slurm_flag_follows(returns) ==
    /\ impl \in {"ops", "tar", "install"}
    /\ slurm_installed' = returns
    /\ last' = Call("prepare_system_for_slurm", "", NoContext, NoContext,
                    IF returns THEN "ok" ELSE "raised",
                    <<Ev("setup_system", "", "host")>>, "none")
    /\ UNCHANGED <<impl, component, template_exists, conf, munge_key_file,
                   active, slurm_version_set, slurm_started>>
    /\ UNCHANGED <<installer_vars, writer_vars, addons>>

\* prepare_system_for_slurm / install: the flag is set once the setup
\* sequence has returned; returns says whether it did
prepare_system_for_slurm(returns) ==
    /\ impl \in {"ops", "tar", "install"}
    /\ slurm_installed' = (slurm_installed \/ returns)
    /\ last' = Call("prepare_system_for_slurm", "", NoContext, NoContext,
                    IF returns THEN "ok" ELSE "raised",
                    <<Ev("setup_system", "", "host")>>, "none")
    /\ UNCHANGED <<impl, component, template_exists, conf, munge_key_file,
                   active, slurm_version_set,
                   slurm_started>>
    /\ UNCHANGED <<installer_vars, writer_vars, addons>>

(***************************************************************************)
(* The tar installer: SlurmTarManager.setup_system                         *)
(***************************************************************************)
\* a subprocess that ran and ended with exit code rc
Run(cmd, target, rc) ==
    [cmd |-> cmd, arg |-> "", target |-> target, rc |-> rc]

\* exit code of a tool: 1 when the tool fails in this run
RC(tool, fails) == IF tool \in fails THEN 1 ELSE 0

RECURSIVE FlatMap(_, _)
\* the concatenation of F(x) over the list xs, in order
FlatMap(F(_), xs) ==
    IF xs = <<>> THEN <<>> ELSE F(Head(xs)) \o FlatMap(F, Tail(xs))

\* slurm_dirs of _prepare_filesystem
slurm_dirs ==
    <<"/etc/slurm/plugstack.d", "/etc/slurm", "/var/log/slurm",
      "/srv/slurm", "/var/spool/slurmd", "/var/lib/slurmd",
      "/etc/sysconfig">>

\* the state files without the federation one
slurm_state_files_short ==
    <<"/var/lib/slurmd/node_state", "/var/lib/slurmd/front_end_state",
      "/var/lib/slurmd/job_state", "/var/lib/slurmd/resv_state",
      "/var/lib/slurmd/trigger_state", "/var/lib/slurmd/assoc_mgr_state",
      "/var/lib/slurmd/assoc_usage", "/var/lib/slurmd/qos_usage">>

\* slurm_state_files of _prepare_filesystem
slurm_state_files ==
    <<"/var/lib/slurmd/node_state", "/var/lib/slurmd/front_end_state",
      "/var/lib/slurmd/job_state", "/var/lib/slurmd/resv_state",
      "/var/lib/slurmd/trigger_state", "/var/lib/slurmd/assoc_mgr_state",
      "/var/lib/slurmd/assoc_usage", "/var/lib/slurmd/qos_usage",
      "/var/lib/slurmd/fed_mgr_state">>

TmpResource == "/tmp/slurm-resource"

TmpSlurmd == "/tmp/slurm-resource/sbin/slurmd"

UnitFile == "/etc/systemd/system/unit.service"

\* the exit code of groupadd / useradd / adduser for an account: 9 when it
\* exists already, 1 when the tool fails, 0 when it creates the account
AccountExit(account, have, can_create, fails_now) ==
    IF account \in have THEN 9
    ELSE IF fails_now \/ ~can_create THEN 1
    ELSE 0

\* the accounts after groupadd and then useradd -g <group>
AccountsAfter(have, rc_group, rc_user) ==
    have \cup (IF rc_group = 0 THEN {"group"} ELSE {})
         \cup (IF rc_user = 0 THEN {"user"} ELSE {})

\* _install_os_deps: the package manager, then a munge key if there is none
InstallOsDeps(os, fails, key, urandom) ==
    <<Run(IF os = "ubuntu" THEN "apt" ELSE "yum", "install deps",
          RC("pkg", fails))>>
    \o (IF key = <<>>
        THEN <<Ev("write_bytes", "urandom", "munge_key"),
               Ev("chmod", "0400", "munge_key")>>
        ELSE <<>>)

\* _create_slurm_user_and_group
CreateSlurmUserAndGroup(have, fails) ==
    LET rc_group == AccountExit("group", have, TRUE, "groupadd" \in fails)
        group_now == "group" \in have \/ rc_group = 0
        rc_user == AccountExit("user", have, group_now, "useradd" \in fails)
    IN [events |-> <<Run("groupadd", "slurm", rc_group),
                     Run("useradd", "slurm", rc_user)>>,
        accounts |-> AccountsAfter(have, rc_group, rc_user)]

\* _prepare_filesystem: mkdir and chown each directory, touch the state
\* files, chown the state directory
PrepareFilesystemEvents ==
    [rc \in {0, 1} |->
       LET MkdirChown(d) == <<Ev("mkdir", "", d), Run("chown", d, rc)>>
           Touch(f) == <<Ev("touch", "", f)>>
       IN FlatMap(MkdirChown, slurm_dirs)
          \o FlatMap(Touch, slurm_state_files)
          \o <<Run("chown", "/var/lib/slurmd", rc)>>]

PrepareFilesystem(fails) == PrepareFilesystemEvents[RC("chown", fails)]

\* what _prepare_filesystem and _create_environment_files leave on the host
PreparedFiles ==
    Range(slurm_dirs) \cup Range(slurm_state_files)
      \cup {"/etc/sysconfig/component", "/etc/environment"}

\* _create_environment_files
CreateEnvironmentFiles ==
    <<Ev("write_text", "", "/etc/sysconfig/component"),
      Ev("append", "", "/etc/environment")>>

\* _provision_slurm_resource up to its wait loop
ProvisionExtract(have_files, fails) ==
    (IF TmpResource \in have_files THEN <<>>
     ELSE <<Ev("mkdir", "", TmpResource)>>)
    \o <<Run("tar", TmpResource, RC("tar", fails))>>

\* _provision_slurm_resource after its wait loop
ProvisionCopy(fails) ==
    LET Copy(d) == <<Run("cp", d, RC("cp", fails))>>
    IN FlatMap(Copy, <<"bin", "sbin", "lib", "include">>)

\* _set_ld_library_path
SetLdLibraryPath(fails) ==
    <<Ev("write_text", "", "/etc/ld.so.conf.d/slurm.conf"),
      Run("ldconfig", "", RC("ldconfig", fails))>>

\* an event of the systemctl wrapper, with the exit code it ended with
WithRc(e, rc) ==
    [cmd |-> e.cmd, arg |-> e.arg, target |-> e.target, rc |-> rc]

\* _setup_systemd giving up at the first command that fails
SetupSystemd_abort_on_cp(i, have_files, fails, was_active) ==
    LET rc_cp == RC("cp_unit", fails)
        rc_enable == IF rc_cp = 0 THEN RC("enable", fails) ELSE 1
        r == SystemctlResult(i, "enable", rc_enable, was_active)
    IN [events |-> IF rc_cp # 0 THEN <<Run("cp", UnitFile, rc_cp)>>
                   ELSE <<Run("cp", UnitFile, rc_cp),
                          Run("systemctl", "daemon-reload",
                              RC("daemon-reload", fails)),
                          WithRc(r.events[1], rc_enable)>>,
        files |-> IF rc_cp = 0 THEN {UnitFile} ELSE {},
        enabled |-> rc_enable = 0]

\* _setup_systemd: copy the unit file, daemon-reload, enable; systemctl
\* cannot enable a unit whose file is not there
SetupSystemd(i, have_files, fails, was_active) ==
    LET rc_cp == RC("cp_unit", fails)
        unit_there == UnitFile \in have_files \/ rc_cp = 0
        rc_enable == IF unit_there THEN RC("enable", fails) ELSE 1
        r == SystemctlResult(i, "enable", rc_enable, was_active)
    IN [events |-> <<Run("cp", UnitFile, rc_cp),
                     Run("systemctl", "daemon-reload",
                         RC("daemon-reload", fails))>>
                   \o <<WithRc(r.events[1], rc_enable)>>,
        files |-> IF rc_cp = 0 THEN {UnitFile} ELSE {},
        enabled |-> rc_enable = 0]

\* the directory layout made before the accounts it is chowned to exist
SetupSystemToWait_dirs_first(deps, accts, dirs, extract) ==
    deps \o dirs \o accts \o CreateEnvironmentFiles \o extract

\* the statements of setup_system up to the wait loop, in program order
SetupSystemToWait(deps, accts, dirs, extract) ==
    deps \o accts \o dirs \o CreateEnvironmentFiles \o extract

\* tools whose failure setup_system meets before its wait loop
ToolsBeforeWait == {"pkg", "groupadd", "useradd", "chown", "tar"}

\* tools whose failure setup_system meets after its wait loop
ToolsAfterWait == {"cp", "ldconfig", "cp_unit", "daemon-reload", "enable"}

\* what os.urandom may give a new munge key
UrandomKeys == {<<7>>, <<200, 13>>}

\* setup_system from its first statement to the tar call of
\* _provision_slurm_resource; has_slurmd: the artifact holds sbin/slurmd
setup_system(fails, has_slurmd, urandom) ==
    \E acc \in {CreateSlurmUserAndGroup(accounts, fails)} :
      /\ impl = "ops"
      /\ setup_pc = "idle"
      /\ accounts' = acc.accounts
      /\ munge_key_file' =
           IF munge_key_file = <<>> THEN urandom ELSE munge_key_file
      /\ files' = files \cup PreparedFiles \cup {TmpResource}
                    \cup (IF RC("tar", fails) = 0 /\ has_slurmd
                          THEN {TmpSlurmd} ELSE {})
      /\ setup_pc' = "waiting"
      /\ polls' = 0
      /\ last' = Call("setup_system", "", NoContext, NoContext, "running",
                      SetupSystemToWait(
                          InstallOsDeps(os_release, fails, munge_key_file,
                                        urandom),
                          acc.events, PrepareFilesystem(fails),
                          ProvisionExtract(files, fails)),
                      "none")
      /\ UNCHANGED <<impl, component, template_exists, conf, active,
                     slurm_installed, slurm_version_set, slurm_started,
                     os_release, unit_enabled>>
      /\ UNCHANGED <<writer_vars, addons>>

\* the wait loop with a limit on its tests: TimeoutError after MaxPolls
wait_for_slurmd_bounded(fails) ==
    /\ setup_pc = "waiting"
    /\ TmpSlurmd \notin files
    /\ IF polls < MaxPolls
       THEN /\ polls' = polls + 1
            /\ last' = [last EXCEPT !.events = @ \o <<Ev("sleep", "1", "")>>]
            /\ UNCHANGED setup_pc
       ELSE /\ last' = [last EXCEPT !.outcome = "TimeoutError"]
            /\ setup_pc' = "idle"
            /\ UNCHANGED polls
    /\ UNCHANGED <<impl, component, template_exists, conf, munge_key_file,
                   active, slurm_installed, slurm_version_set, slurm_started,
                   os_release, accounts, files, unit_enabled>>
    /\ UNCHANGED <<writer_vars, addons>>

\* one test of the wait loop of _provision_slurm_resource: sleep(1) while
\* sbin/slurmd is not there, else the rest of setup_system to its return
wait_for_slurmd(fails) ==
    /\ setup_pc = "waiting"
    /\ IF TmpSlurmd \notin files
       THEN /\ polls < MaxPolls
            /\ polls' = polls + 1
            /\ last' = [last EXCEPT !.events = @ \o <<Ev("sleep", "1", "")>>]
            /\ UNCHANGED <<files, unit_enabled, setup_pc>>
       ELSE \E u \in {SetupSystemd(impl, files, fails, active)} :
              /\ files' = files \cup {"/etc/ld.so.conf.d/slurm.conf"}
                            \cup u.files
              /\ unit_enabled' = (unit_enabled \/ u.enabled)
              /\ setup_pc' = "idle"
              /\ last' = [last EXCEPT
                            !.outcome = "ok",
                            !.events = @ \o ProvisionCopy(fails)
                                         \o SetLdLibraryPath(fails)
                                         \o u.events]
              /\ UNCHANGED polls
    /\ UNCHANGED <<impl, component, template_exists, conf, munge_key_file,
                   active, slurm_installed, slurm_version_set, slurm_started,
                   os_release, accounts>>
    /\ UNCHANGED <<writer_vars, addons>>

(***************************************************************************)
(* The RPM installer: SlurmRpmManager.setup_slurm                          *)
(***************************************************************************)
\* the statements of _install_slurm_from_rpm, in program order
RpmSteps ==
    <<"yum_deps", "enable_munge", "yum_slurm", "dd", "chown", "chmod",
      "groupadd", "adduser", "slurmrestd_unit", "return_true">>

\* tools whose failure setup_slurm can meet
RpmTools ==
    {"makecache", "yum_deps", "enable_munge", "yum_slurm", "dd", "chown",
     "chmod", "groupadd", "adduser"}

\* subprocess.check_output outside any try: a non-zero exit raises
CheckOutput(st, tool, cmd, target, fails) ==
    [st EXCEPT !.events = @ \o <<Run(cmd, target, RC(tool, fails))>>,
               !.outcome = IF tool \in fails THEN "CalledProcessError"
                           ELSE "ok"]

\* groupadd / adduser with every non-zero exit code ending the method
AddAccount_no_exit9(st, account, cmd, can_create, fails_now) ==
    LET rc == AccountExit(account, st.accounts, can_create, fails_now)
    IN [st EXCEPT !.events = @ \o <<Run(cmd, "slurm", rc)>>,
                  !.accounts = IF rc = 0 THEN @ \cup {account} ELSE @,
                  !.outcome = IF rc = 0 THEN "ok" ELSE "return",
                  !.ret = IF rc = 0 THEN @ ELSE "False"]

\* groupadd / adduser in a try: exit code 9 is logged and passed over,
\* any other non-zero exit code ends the method with False
AddAccount(st, account, cmd, can_create, fails_now) ==
    LET rc == AccountExit(account, st.accounts, can_create, fails_now)
    IN [st EXCEPT !.events = @ \o <<Run(cmd, "slurm", rc)>>,
                  !.accounts = IF rc = 0 THEN @ \cup {account} ELSE @,
                  !.outcome = IF rc \in {0, 9} THEN "ok" ELSE "return",
                  !.ret = IF rc \in {0, 9} THEN @ ELSE "False"]

\* one statement of _install_slurm_from_rpm on the running state st
RpmStep(step, st, in) ==
    CASE step = "yum_deps" ->
           CheckOutput(st, "yum_deps", "yum", "install deps", in.fails)
      [] step = "enable_munge" ->
           CheckOutput(st, "enable_munge", "systemctl", "enable munge",
                       in.fails)
      [] step = "yum_slurm" ->
           [st EXCEPT
              !.events = @ \o <<Run("yum", "install slurm",
                                    RC("yum_slurm", in.fails))>>,
              !.outcome = IF "yum_slurm" \in in.fails THEN "return"
                          ELSE "ok",
              !.ret = IF "yum_slurm" \in in.fails THEN "False" ELSE @]
      [] step = "dd" ->
           LET r == CheckOutput(st, "dd", "dd", "munge_key", in.fails)
           IN IF r.outcome = "ok" THEN [r EXCEPT !.key = in.urandom] ELSE r
      [] step = "chown" ->
           CheckOutput(st, "chown", "chown", "munge_key", in.fails)
      [] step = "chmod" ->
           CheckOutput(st, "chmod", "chmod", "munge_key", in.fails)
      [] step = "groupadd" ->
           AddAccount(st, "group", "groupadd", TRUE, "groupadd" \in in.fails)
      [] step = "adduser" ->
           AddAccount(st, "user", "adduser", "group" \in st.accounts,
                      "adduser" \in in.fails)
      [] step = "slurmrestd_unit" ->
           IF in.comp = "slurmrestd"
           THEN Emit(st, <<Ev("copyfile", "", "slurmrestd.service")>>)
           ELSE st
      [] step = "return_true" ->
           [st EXCEPT !.outcome = "return", !.ret = "True"]

\* _install_slurm_from_rpm: what it returns or raises, and what it ran
InstallSlurmFromRpm(comp, have, key, fails, urandom) ==
    RunStepsOf(RpmStep, RpmSteps,
               [accounts |-> have, key |-> key, events |-> <<>>,
                outcome |-> "ok", ret |-> "none"],
               [comp |-> comp, fails |-> fails, urandom |-> urandom])

\* a method the class calls and neither it nor its base class defines
UndefinedMethod(name) ==
    [outcome |-> "AttributeError", events |-> <<Ev("getattr", "", name)>>]

\* setup_slurm: _setup_repo, _install_slurm_from_rpm, _setup_paths, ...
SetupSlurmResult(comp, have, key, fails, urandom) ==
    LET repo == <<Ev("write_text", "", "/etc/yum.repos.d/omni.repo"),
                  Run("yum", "makecache", RC("makecache", fails))>>
        inst == InstallSlurmFromRpm(comp, have, key, fails, urandom)
    IN IF "makecache" \in fails
       THEN [outcome |-> "ok", ret |-> "False", events |-> repo,
             accounts |-> have, key |-> key]
       ELSE IF inst.outcome = "CalledProcessError"
       THEN [outcome |-> "CalledProcessError", ret |-> "none",
             events |-> repo \o inst.events,
             accounts |-> inst.accounts, key |-> inst.key]
       ELSE [outcome |-> UndefinedMethod("_setup_paths").outcome,
             ret |-> "none",
             events |-> repo \o inst.events
                        \o <<Ev("return", inst.ret,
                                "_install_slurm_from_rpm")>>
                        \o UndefinedMethod("_setup_paths").events,
             accounts |-> inst.accounts, key |-> inst.key]

setup_slurm(fails, urandom) ==
    \E r \in {SetupSlurmResult(component, accounts, munge_key_file, fails,
                               urandom)} :
      /\ impl = "base"
      /\ setup_pc = "idle"
      /\ accounts' = r.accounts
      /\ munge_key_file' = r.key
      /\ last' = Call("setup_slurm", "", NoContext, NoContext, r.outcome,
                      r.events, r.ret)
      /\ UNCHANGED <<impl, component, template_exists, conf, active,
                     slurm_installed, slurm_version_set, slurm_started,
                     os_release, files, unit_enabled, setup_pc, polls>>
      /\ UNCHANGED <<writer_vars, addons>>

\* the sets of at most MaxFailures tools that fail in one call
FailureSets(tools) ==
    {f \in SUBSET tools : Cardinality(f) <= MaxFailures}

\* a host before any install; the RPM installer is the one for CentOS
InitSetup ==
    /\ impl \in {"ops", "base"}
    /\ component \in IF impl = "base" THEN {"slurmd", "slurmrestd"}
                     ELSE {"slurmd"}
    /\ template_exists = TRUE
    /\ conf = AbsentFile
    /\ munge_key_file = <<>>
    /\ active = FALSE
    /\ slurm_installed = FALSE
    /\ slurm_version_set = FALSE
    /\ slurm_started = FALSE
    /\ last = Call("__init__", "", NoContext, NoContext, "ok", <<>>, "none")
    /\ os_release \in IF impl = "base" THEN {"centos"}
                      ELSE {"ubuntu", "centos"}
    /\ accounts = {}
    /\ files = {}
    /\ unit_enabled = FALSE
    /\ setup_pc = "idle"
    /\ polls = 0
    /\ write_pc = "idle"
    /\ pending = NoPending
    /\ seen = "none"
    /\ addons = NoAddons

NextSetup ==
    \/ \E fails \in FailureSets(ToolsBeforeWait), has_slurmd \in BOOLEAN,
          urandom \in OnlyIf(munge_key_file = <<>>, UrandomKeys, <<>>) :
         setup_system(fails, has_slurmd, urandom)
    \/ \E fails \in OnlyIf(TmpSlurmd \in files,
                           FailureSets(ToolsAfterWait), {}) :
         wait_for_slurmd(fails)
    \/ \E fails \in FailureSets(RpmTools), urandom \in UrandomKeys :
         setup_slurm(fails, urandom)

SpecSetup == InitSetup /\ [][NextSetup]_vars

(***************************************************************************)
(* Specification                                                           *)
(***************************************************************************)
\* a config file left on the host by an earlier deployment
OldFile ==
    [exists |-> TRUE, text |-> [cluster_name |-> Str("old")],
     mode |-> "default"]

Init ==
    /\ impl \in Impls
    /\ component \in Components
    /\ template_exists \in BOOLEAN
    /\ conf \in {AbsentFile, OldFile}
    /\ munge_key_file = <<>>
    /\ active = FALSE
    /\ slurm_installed = FALSE
    /\ slurm_version_set = FALSE
    /\ slurm_started = FALSE
    /\ last = Call("__init__", "", NoContext, NoContext, "ok", <<>>, "none")
    /\ os_release = "ubuntu"
    /\ accounts = {}
    /\ files = {}
    /\ unit_enabled = FALSE
    /\ setup_pc = "idle"
    /\ polls = 0
    /\ write_pc = "idle"
    /\ pending = NoPending
    /\ seen = "none"
    /\ addons = NoAddons

WriteSlurmConfig(contexts) ==
    \E context \in contexts :
      \E order \in ParameterOrders(impl, context),
         fields \in OnlyIf(impl = "install", BOOLEAN, FALSE) :
        write_slurm_config(context, order, fields)

Next ==
    \/ \E operation \in Operations :
         \E rc \in ExitCodes(operation, active) :
           slurm_systemctl(operation, rc)
    \/ WriteSlurmConfig(LifecycleContexts)
    \/ \E slurm_config \in LifecycleContexts, rc \in {0, 1},
          version_ok \in OnlyIf(impl = "ops", BOOLEAN, TRUE) :
           render_config_and_restart(slurm_config, rc, version_ok)
    \/ \E returns \in BOOLEAN : prepare_system_for_slurm(returns)
    \/ \E munge_key \in {PaddedKey, PlainKey, BadKey} :
         write_munge_key(munge_key)
    \/ get_munge_key

Spec == Init /\ [][Next]_vars

\* the renderer alone, on every context of ConfigContexts
NextConfig == WriteSlurmConfig(ConfigContexts)

SpecConfig == Init /\ [][NextConfig]_vars

\* the munge key file alone, on every text of MungeKeyTexts
NextMunge ==
    \/ \E munge_key \in MungeKeyTexts : write_munge_key(munge_key)
    \/ get_munge_key

SpecMunge == Init /\ [][NextMunge]_vars

(***************************************************************************)
(* Properties                                                              *)
(***************************************************************************)
\* the allow-list as the specification words it
DocumentedAllowList ==
    {"enable", "start", "stop", "restart", "is-active", "daemon-reload"}

StartType(e) ==
    e.cmd = "systemctl" /\ e.target = "slurm" /\ e.arg \in {"start", "restart"}

\* C1: an operation outside the allow-list makes the systemctl wrapper
\* raise, and the call spawns no subprocess and leaves the unit alone.
C1_UnsupportedOperationRaises ==
    (last.op = "slurm_systemctl" /\ last.operation \notin DocumentedAllowList)
    => /\ last.outcome = "Exception"
       /\ \A j \in DOMAIN last.events : ~IsSubprocess(last.events[j])

C1_Witness ==
    /\ last.op = "slurm_systemctl"
    /\ last.operation = "status"
    /\ last.outcome = "Exception"
    /\ last.events = <<>>

\* C2 as claimed: each of the six documented operations is run by the
\* wrapper and does not raise the unsupported-command error.
C2_SixOperationsRun ==
    (last.op = "slurm_systemctl" /\ last.operation \in DocumentedAllowList)
    => /\ last.outcome = "ok"
       /\ last.events = <<Ev("systemctl", last.operation, "slurm")>>

\* C2 as amended: the list is enable, start, stop, restart, and is-active
\* in slurm_ops.py only; an operation of the list is run and does not
\* raise, every other operation, daemon-reload included, raises.
C2_AllowListOfTheWrapper ==
    last.op = "slurm_systemctl"
    => LET allowed == {"enable", "start", "stop", "restart"}
                      \cup (IF impl = "ops" THEN {"is-active"} ELSE {})
       IN IF last.operation \in allowed
          THEN /\ last.outcome = "ok"
               /\ last.events = <<Ev("systemctl", last.operation, "slurm")>>
          ELSE /\ last.outcome = "Exception"
               /\ last.events = <<>>

C2_Witness ==
    /\ impl = "ops"
    /\ last.op = "slurm_systemctl"
    /\ last.operation = "is-active"
    /\ last.outcome = "ok"
    /\ last.events = <<Ev("systemctl", "is-active", "slurm")>>

IsWrite(c) == c.op \in {"write_slurm_config", "_write_config", "write_config"}

\* keys of the caller's context that the common defaults also hold
SharedKeys(i, context) ==
    ((DOMAIN context.items) \cap (DOMAIN common_config(i)))
    \ {"slurmctld_parameters"}

\* C3 as claimed: for a key of both the context and the common defaults
\* (slurmctld_parameters aside) the template is handed the caller's value.
C3_CallerValueWins ==
    (last.op = "write_slurm_config" /\ last.outcome = "ok")
    => \A k \in SharedKeys(impl, last.context) :
         conf.text[k] = last.context.items[k]

\* C3 as amended: for such a key the template is handed the default, not
\* the caller's value; the caller's value is handed over for the keys the
\* defaults do not hold.
C3_DefaultValueWins ==
    (last.op = "write_slurm_config" /\ last.outcome = "ok")
    => /\ \A k \in SharedKeys(impl, last.context) :
            conf.text[k] = common_config(impl)[k]
       /\ \A k \in (DOMAIN last.context.items)
                       \ (DOMAIN common_config(impl)) :
            conf.text[k] = last.context.items[k]

C3_Witness ==
    /\ last.op = "write_slurm_config"
    /\ last.outcome = "ok"
    /\ "slurm_user" \in DOMAIN last.context.items
    /\ last.context.items["slurm_user"] = Str("admin")
    /\ conf.text["slurm_user"] = Str("slurm")
    /\ conf.text["cluster_name"] = Str("cluster1")

\* C4: with a non-empty slurmctld_parameters in the context, the rendered
\* slurmctld_parameters lists every parameter of the default
\* {enable_configless} and of the caller exactly once, in some order.
C4_ParametersAreUnion ==
    (/\ last.op = "write_slurm_config"
     /\ impl = "base"
     /\ last.outcome = "ok"
     /\ "slurmctld_parameters" \in DOMAIN last.context.items
     /\ last.context.items["slurmctld_parameters"] # <<>>)
    => LET rendered == Split(conf.text["slurmctld_parameters"])
           theirs == Split(last.context.items["slurmctld_parameters"])
       IN /\ Range(rendered) = {Str("enable_configless")} \cup Range(theirs)
          /\ \A a, b \in DOMAIN rendered :
                rendered[a] = rendered[b] => a = b

C4_Witness ==
    /\ last.op = "write_slurm_config"
    /\ impl = "base"
    /\ last.outcome = "ok"
    /\ "slurmctld_parameters" \in DOMAIN last.context.items
    /\ last.context.items["slurmctld_parameters"]
         = <<"enable_configless", ",", "multiple_slurmd">>
    /\ conf.text["slurmctld_parameters"]
         = <<"multiple_slurmd", ",", "enable_configless">>

\* C5: write_slurm_config and render_config_and_restart given a context
\* that is not a mapping raise TypeError with no effect on the host: no
\* unlink, no write of the config or the munge key, no subprocess.
C5_NonMappingIsTypeError ==
    (/\ last.op \in {"write_slurm_config", "_write_config",
                     "render_config_and_restart"}
     /\ last.context.type # "dict")
    => /\ last.outcome = "TypeError"
       /\ last.events = <<>>

C5_Witness ==
    /\ last.op = "render_config_and_restart"
    /\ last.context = NotADict
    /\ last.outcome = "TypeError"
    /\ conf = OldFile
    /\ template_exists

\* C6 as claimed: with the template file absent the config writer fails and
\* an existing target is not unlinked (nor written).
C6_MissingTemplateKeepsTarget ==
    (IsWrite(last) /\ ~template_exists)
    => /\ last.outcome # "ok"
       /\ \A j \in DOMAIN last.events :
             last.events[j].cmd \notin {"unlink", "write_text"}

IsRender(c) == c.op = "render_config_and_restart"

\* positions of the call's start-type operations on the component unit
StartPositions(c) == {j \in DOMAIN c.events : StartType(c.events[j])}

Before(c, j, cmd, target) ==
    \E a \in DOMAIN c.events :
       a < j /\ c.events[a].cmd = cmd /\ c.events[a].target = target

\* C7 as claimed: render_config_and_restart writes the config or starts or
\* restarts the service only when slurm_installed is True.
C7_RenderOnlyWhenInstalled ==
    (/\ IsRender(last)
     /\ \E j \in DOMAIN last.events :
           last.events[j].cmd = "write_text" \/ StartType(last.events[j]))
    => slurm_installed

\* C7 as amended: the manager records the install and does not enforce the
\* order. slurm_installed changes only from False to True and only when the
\* install step returns; render_config_and_restart neither reads nor
\* changes it, and writes the config and restarts the service also while it
\* is False.
C7_InstallFlagOnlyRecorded ==
    [][/\ (slurm_installed' # slurm_installed)
          => /\ slurm_installed'
             /\ last'.op = "prepare_system_for_slurm"
             /\ last'.outcome = "ok"
       /\ (last'.op = "prepare_system_for_slurm" /\ last'.outcome # "ok")
          => slurm_installed' = slurm_installed]_vars

C7_Witness ==
    /\ IsRender(last)
    /\ last.outcome = "ok"
    /\ ~slurm_installed
    /\ conf.exists
    /\ StartPositions(last) # {}

\* C8 as claimed: in one call the config file and the munge key are both
\* written before the component service is started or restarted.
C8_ConfigAndKeyBeforeStart ==
    IsRender(last)
    => \A j \in StartPositions(last) :
         /\ Before(last, j, "write_text", "conf")
         /\ Before(last, j, "write_bytes", "munge_key")

\* C8 as amended: the config file is written before the service is started
\* or restarted; the munge key is written before it in the tar and snap
\* managers, and after the restart in slurm_ops.py.
C8_ConfigBeforeStart ==
    IsRender(last)
    => \A j \in StartPositions(last) :
         /\ Before(last, j, "write_text", "conf")
         /\ impl = "tar" => Before(last, j, "write_bytes", "munge_key")
         /\ impl = "ops"
            => \A b \in DOMAIN last.events :
                 last.events[b].cmd = "write_bytes" => b > j

C8_Witness ==
    /\ IsRender(last)
    /\ impl = "ops"
    /\ last.outcome = "ok"
    /\ \E j \in StartPositions(last), b \in DOMAIN last.events :
          last.events[b].cmd = "write_bytes" /\ b > j

\* C9 as claimed: the start-type operation of a call is the only one, and it
\* is restart if the service was active at that moment and start if not.
C9_OneStartChosenByState ==
    (IsRender(last) /\ StartPositions(last) # {})
    => /\ Cardinality(StartPositions(last)) = 1
       /\ \A j \in StartPositions(last) :
             last.events[j].arg
               = IF last.observed THEN "restart" ELSE "start"

\* C9 as amended: a call issues at most one start-type operation, none when
\* it fails before that step and one when it reaches the re-check. The tar
\* and snap managers choose restart for an active and start for an inactive
\* service; slurm_ops.py always issues restart, whatever the state.
C9_AtMostOneStartPerRevision ==
    IsRender(last)
    => /\ Cardinality(StartPositions(last)) <= 1
       /\ last.outcome \in {"TypeError", "FileNotFoundError"}
          => StartPositions(last) = {}
       /\ last.outcome \in {"ok", "Exception", "SystemExit"}
          => Cardinality(StartPositions(last)) = 1
       /\ \A j \in StartPositions(last) :
             last.events[j].arg
               = IF impl = "ops" THEN "restart"
                 ELSE IF last.observed THEN "restart" ELSE "start"

C9_Witness ==
    /\ IsRender(last)
    /\ impl = "ops"
    /\ ~last.observed
    /\ \E j \in StartPositions(last) : last.events[j].arg = "restart"

\* C10: render_config_and_restart returns normally only if the is-active
\* check made after the start or restart reported active; if it reported
\* not active the call raises; the start or restart is attempted at most
\* once.
C10_ReturnsOnlyIfActive ==
    IsRender(last)
    => /\ last.outcome = "ok" => last.recheck = "active"
       /\ last.recheck = "inactive" => last.outcome = "Exception"
       /\ last.recheck = "active" => active
       /\ last.recheck # "none"
          => \E j \in StartPositions(last) :
                \E k \in DOMAIN last.events :
                   /\ k > j
                   /\ last.events[k] = Ev("systemctl", "is-active", "slurm")
       /\ Cardinality(StartPositions(last)) <= 1

C10_Witness ==
    /\ IsRender(last)
    /\ last.recheck = "inactive"
    /\ last.outcome = "Exception"
    /\ Cardinality(StartPositions(last)) = 1

\* C11: render_config_and_restart given a mapping without munge_key ends in
\* a raised error, never a normal return; the error is the same whether the
\* service was active or not (it depends on the template alone), and the
\* munge key file is left as it was.
C11_MissingMungeKeyFails ==
    [][(/\ IsRender(last')
        /\ last'.context.type = "dict"
        /\ "munge_key" \notin DOMAIN last'.context.items)
       => /\ last'.outcome = IF template_exists THEN "KeyError"
                             ELSE "FileNotFoundError"
          /\ munge_key_file' = munge_key_file]_vars

C11_Witness ==
    /\ IsRender(last)
    /\ last.context = Dict([cluster_name |-> Str("cluster1")])
    /\ last.outcome = "KeyError"
    /\ last.observed
    /\ munge_key_file = b64decode(PaddedKey)

\* C12 as claimed: write_munge_key(b) followed by get_munge_key() returns b,
\* for every text b the decoder accepts.
C12_RoundTripOfAcceptedText ==
    [][(/\ last.op = "write_munge_key"
        /\ last.outcome = "ok"
        /\ last'.op = "get_munge_key")
       => last'.ret = last.arg]_vars

\* C12 as amended: write_munge_key(b) followed by get_munge_key() returns b
\* for every b that is the base64 encoding of some byte payload, padded
\* ones included; for any other accepted text it returns the encoding of
\* the bytes b decodes to.
C12_RoundTripOfEncodedPayload ==
    [][(/\ last.op = "write_munge_key"
        /\ last.outcome = "ok"
        /\ last'.op = "get_munge_key")
       => /\ last'.ret = b64encode(b64decode(last.arg))
          /\ last.arg = b64encode(b64decode(last.arg))
             => last'.ret = last.arg]_vars

C12_Witness ==
    /\ last.op = "get_munge_key"
    /\ last.ret = <<"Q", "U", "J", "D", "Q", "Q", "=", "=">>
    /\ munge_key_file = <<65, 66, 67, 65>>

IsSetup(c) == c.op \in {"setup_system", "setup_slurm"}

\* the step of the setup sequence an event belongs to, "other" for the
\* events of none of the five steps
StepOf(e) ==
    CASE e.cmd \in {"apt", "yum"} /\ e.target = "install deps" -> "deps"
      [] e.cmd \in {"groupadd", "useradd", "adduser"} -> "accounts"
      [] e.cmd \in {"mkdir", "chown"} /\ e.target \in Range(slurm_dirs)
           -> "dirs"
      [] e.cmd = "touch" -> "dirs"
      [] e.cmd = "tar" -> "provision"
      [] e.cmd = "cp" /\ e.target \in {"bin", "sbin", "lib", "include"}
           -> "provision"
      [] e.cmd = "yum" /\ e.target = "install slurm" -> "provision"
      [] e.cmd = "cp" /\ e.target = UnitFile -> "unit"
      [] e.cmd = "copyfile" -> "unit"
      [] e.cmd = "systemctl" /\ e.arg = "enable" -> "unit"
      [] OTHER -> "other"

\* the events of a call follow the order rank gives the steps
InStepOrder(c, rank) ==
    \A a, b \in DOMAIN c.events :
       (/\ a < b
        /\ StepOf(c.events[a]) \in DOMAIN rank
        /\ StepOf(c.events[b]) \in DOMAIN rank)
       => rank[StepOf(c.events[a])] <= rank[StepOf(c.events[b])]

StepsOf(c) == {StepOf(c.events[j]) : j \in DOMAIN c.events}

\* the order of the steps as the specification words it
DocumentedOrder ==
    [deps |-> 1, accounts |-> 2, dirs |-> 3, provision |-> 4, unit |-> 5]

\* C13 as claimed: every setup runs its steps in the order: OS package
\* dependencies, group and user, directory layout, artifact, systemd unit.
C13_SetupStepsInDocumentedOrder ==
    IsSetup(last) => InStepOrder(last, DocumentedOrder)

\* C13 as amended: the tar installer's setup_system runs the five steps in
\* that order, and all of them once it returns; the RPM installer installs
\* the OS package dependencies, then the Slurm packages, and only then
\* creates the group and user, the unit override coming last.
C13_SetupStepsInOrderOfInstaller ==
    /\ last.op = "setup_system"
       => /\ InStepOrder(last, DocumentedOrder)
          /\ last.outcome = "ok"
             => DOMAIN DocumentedOrder \subseteq StepsOf(last)
    /\ last.op = "setup_slurm"
       => InStepOrder(last, [deps |-> 1, provision |-> 2, accounts |-> 3,
                             unit |-> 4])

C13_Witness ==
    /\ last.op = "setup_slurm"
    /\ \E a, b \in DOMAIN last.events :
          /\ a < b
          /\ StepOf(last.events[a]) = "provision"
          /\ StepOf(last.events[b]) = "accounts"

\* a subprocess event that ended with a non-zero exit code
Failing(e) == "rc" \in DOMAIN e /\ e.rc # 0

Subprocesses(c) == {j \in DOMAIN c.events : "rc" \in DOMAIN c.events[j]}

ReturnsFalse == Ev("return", "False", "_install_slurm_from_rpm")

\* the subprocesses setup_system runs up to its wait loop (the package
\* manager, groupadd, useradd, eight chown, tar) and after it (four cp,
\* ldconfig, cp of the unit, daemon-reload, enable)
SubprocessesToWait == 1 + 2 + 8 + 1

SubprocessesInAll == SubprocessesToWait + 4 + 1 + 3

IsAccountTool(e) == e.cmd \in {"groupadd", "useradd", "adduser"}

AccountEvents(c) == {j \in DOMAIN c.events : IsAccountTool(c.events[j])}

\* C15: an account tool ending with exit code 9 (already exists) does not
\* end the install, whose next statement runs; an install on a host that
\* has the group and the user leaves both as they are and meets only exit
\* code 9; any other non-zero exit code of the RPM installer's groupadd or
\* adduser makes _install_slurm_from_rpm return False at once.
C15_AccountCreationIdempotent ==
    [][(setup_pc = "idle" /\ IsSetup(last'))
       => /\ \A j \in AccountEvents(last') :
                LET e == last'.events[j]
                IN /\ e.rc = 9
                      => /\ j < Len(last'.events)
                         /\ last'.events[j + 1] # ReturnsFalse
                   /\ e.rc = 0
                      => \/ e.cmd = "groupadd" /\ "group" \in accounts'
                         \/ e.cmd # "groupadd" /\ "user" \in accounts'
                   /\ (last'.op = "setup_slurm" /\ e.rc \notin {0, 9})
                      => /\ last'.events[j + 1] = ReturnsFalse
                         /\ \A k \in AccountEvents(last') : k <= j
          /\ accounts = {"group", "user"}
             => /\ accounts' = accounts
                /\ \A j \in AccountEvents(last') : last'.events[j].rc = 9
                /\ ReturnsFalse \in Range(last'.events)
                   => \E j \in DOMAIN last'.events :
                         /\ Failing(last'.events[j])
                         /\ ~IsAccountTool(last'.events[j])]_vars

C15_Witness ==
    /\ last.op = "setup_slurm"
    /\ accounts = {"group", "user"}
    /\ Cardinality(AccountEvents(last)) = 2
    /\ \A j \in AccountEvents(last) : last.events[j].rc = 9
    /\ Ev("return", "True", "_install_slurm_from_rpm") \in Range(last.events)

\* an event of the statements after the wait loop
AfterWait(e) ==
    \/ e.cmd \in {"cp", "ldconfig"}
    \/ e.cmd = "systemctl"
    \/ e.target = "/etc/ld.so.conf.d/slurm.conf"

\* C16: while <tmp-resource>/sbin/slurmd is not there setup_system stays in
\* its wait loop whatever the number of tests made: it neither returns nor
\* raises, and no copy, ldconfig or systemd command has run; a call that
\* returned found the file.
C16_WaitHasNoBound ==
    [][/\ (setup_pc = "waiting" /\ TmpSlurmd \notin files)
          => /\ setup_pc' = "waiting"
             /\ last'.op = "setup_system"
             /\ last'.outcome = "running"
             /\ TmpSlurmd \notin files'
             /\ \A j \in DOMAIN last'.events : ~AfterWait(last'.events[j])
       /\ (setup_pc = "waiting" /\ setup_pc' = "idle")
          => /\ TmpSlurmd \in files
             /\ last'.outcome = "ok"]_vars

C16_Witness ==
    /\ setup_pc = "waiting"
    /\ TmpSlurmd \notin files
    /\ polls = MaxPolls
    /\ Ev("sleep", "1", "") \in Range(last.events)

\* the nine state files the specification names, under the state directory
NamedStateFiles ==
    {"/var/lib/slurmd/node_state", "/var/lib/slurmd/front_end_state",
     "/var/lib/slurmd/job_state", "/var/lib/slurmd/resv_state",
     "/var/lib/slurmd/trigger_state", "/var/lib/slurmd/assoc_mgr_state",
     "/var/lib/slurmd/assoc_usage", "/var/lib/slurmd/qos_usage",
     "/var/lib/slurmd/fed_mgr_state"}

Returned(c) == c.op = "setup_system" /\ c.outcome = "ok"

EnableEvents(c) ==
    {j \in DOMAIN c.events :
       c.events[j].cmd = "systemctl" /\ c.events[j].arg = "enable"}

C18_SlurmdbdConfMode0600 ==
    (IsWrite(last) /\ last.outcome = "ok" /\ component = "slurmdbd")
    => conf.mode = "0600"

\* contexts for the statement by statement write: a mapping with and one
\* without parameters to merge, and a non-mapping
ReplaceContexts ==
    {Dict([cluster_name |-> Str("cluster1")]),
     Dict([cluster_name |-> Str("cluster1"),
           slurmctld_parameters |-> Str("multiple_slurmd")]),
     NotADict}

NextReplace ==
    \/ \E context \in ReplaceContexts :
         \E order \in ParameterOrders(impl, context) :
           write_config_unlink(context, order)
    \/ \E failure \in WriteFailures : write_config_write(failure)
    \/ read_config

SpecReplace == Init /\ [][NextReplace]_vars

\* C19: replacing the target is not atomic. Between the unlink and the
\* write the target does not exist, so a reader that looks then finds no
\* file; and when the render or the write fails after the unlink the host
\* is left without the previous config: the target is absent or empty.
C19_ReplaceIsNotAtomic ==
    [][/\ write_pc' = "unlinked" => ~conf'.exists
       /\ (write_pc' = "unlinked" /\ seen' # seen) => seen' = "no file"
       /\ (write_pc = "unlinked" /\ last'.outcome \notin {"ok", "running"})
          => /\ write_pc' = "idle"
             /\ IsWrite(last')
             /\ conf'.text = <<>>
             /\ (pending.before.exists /\ pending.before.text # <<>>)
                => conf' # pending.before]_vars

C19_Witness ==
    /\ write_pc = "unlinked"
    /\ pending.before.exists
    /\ seen = "no file"
    /\ ~conf.exists

(***************************************************************************)
(* The constructors                                                        *)
(***************************************************************************)
\* keys a caller may pass that name no Slurm component
UnsupportedComponents == {"munge", "slurmstepd", "SLURMD"}

\* port_map; slurm_ops_base.py holds the numbers as text, the other
\* revisions as integers
port_map ==
    [slurmctld |-> "6817", slurmd |-> "6818", slurmdbd |-> "6819",
     slurmrestd |-> "6820"]

\* the template and the target each revision picks for a component
ConfNames(i, key) ==
    IF i = "install"
    THEN \* the target is the class constant _SLURM_CONF, and no port is kept
         [template |-> IF key = "slurmdbd" THEN "slurmdbd.conf.tmpl"
                       ELSE "slurm.conf.tmpl",
          conf |-> "slurm.conf", port |-> "none"]
    ELSE [template |-> IF key = "slurmdbd" THEN "slurmdbd.conf.tmpl"
                       ELSE "slurm.conf.tmpl",
          conf |-> IF key = "slurmdbd" THEN "slurmdbd.conf"
                   ELSE "slurm.conf",
          port |-> port_map[key]]

\* __init__ of revision i with component key: what it raises, or the
\* attributes it leaves on the new manager
InitResult(i, key) ==
    IF key \in Components
    THEN [outcome |-> "ok", attrs |-> ConfNames(i, key)]
    ELSE IF i = "install"
    THEN \* only logged; self.slurm_component is then read unassigned
         [outcome |-> "AttributeError", attrs |-> "none"]
    ELSE [outcome |-> "Exception", attrs |-> "none"]

\* a manager of revision i is constructed for key; when the constructor
\* raises there is no new manager and the one in use stays
construct(i, key) ==
    \E r \in {InitResult(i, key)} :
      /\ impl' = IF r.outcome = "ok" THEN i ELSE impl
      /\ component' = IF r.outcome = "ok" THEN key ELSE component
      /\ last' = [Call("__init__", "", NoContext, NoContext, r.outcome,
                       <<>>, r.attrs) EXCEPT !.arg = <<i, key>>]
      /\ UNCHANGED <<template_exists, conf, munge_key_file, active,
                     slurm_installed, slurm_version_set, slurm_started>>
      /\ UNCHANGED <<installer_vars, writer_vars, addons>>

NextConstruct ==
    \E i \in Impls, key \in Components \cup UnsupportedComponents :
       construct(i, key)

SpecConstruct == Init /\ [][NextConstruct]_vars

\* the ports of the specification
DocumentedPorts ==
    [slurmctld |-> "6817", slurmd |-> "6818", slurmdbd |-> "6819",
     slurmrestd |-> "6820"]

Constructed(c) == c.op = "__init__" /\ c.arg # <<>>

\* C20: constructing a manager for a key outside the four components
\* raises; for a component the template, the target and the port follow
\* from it alone: slurmdbd.conf.tmpl and slurmdbd.conf for slurmdbd,
\* slurm.conf.tmpl and slurm.conf for the others, and the documented port
\* where the manager keeps a port.
C20_ComponentFixesTemplateTargetPort ==
    Constructed(last)
    => LET key == last.arg[2]
       IN IF key \notin {"slurmd", "slurmctld", "slurmdbd", "slurmrestd"}
          THEN last.outcome # "ok"
          ELSE /\ last.outcome = "ok"
               /\ last.ret.template = IF key = "slurmdbd"
                                      THEN "slurmdbd.conf.tmpl"
                                      ELSE "slurm.conf.tmpl"
               /\ last.ret.conf = IF key = "slurmdbd" THEN "slurmdbd.conf"
                                  ELSE "slurm.conf"
               /\ last.ret.port \in {DocumentedPorts[key], "none"}

(***************************************************************************)
(* The resource detector: SlurmOpsManager.__init__ of slurm_ops.py         *)
(***************************************************************************)
\* what the 'slurm' resource may be: not attached, a file that cannot be
\* opened, or a readable file of some format
Artifacts ==
    {[fetched |-> FALSE, readable |-> FALSE, format |-> "none"],
     [fetched |-> TRUE, readable |-> FALSE, format |-> "none"]}
    \cup {[fetched |-> TRUE, readable |-> TRUE, format |-> f] :
            f \in {"tar", "tar.gz", "squashfs", "text", "empty"}}

\* is_tarfile taking only an uncompressed archive for a tar archive
is_tarfile_uncompressed(a) == a.format = "tar"

\* tarfile.is_tarfile: tarfile.open succeeds, for a plain or a compressed
\* archive; every other content, the empty file included, is a ReadError
\* that it turns into False
is_tarfile(a) == a.format \in {"tar", "tar.gz"}

\* SlurmOpsManager.__init__: fetch the resource, test it, make the manager
DetectResult(a, key) ==
    IF ~a.fetched
    THEN [outcome |-> "ModelError", manager |-> "none"]
    ELSE IF ~a.readable
    THEN [outcome |-> "OSError", manager |-> "none"]
    ELSE IF key \notin Components
    THEN [outcome |-> "Exception", manager |-> "none"]
    ELSE [outcome |-> "ok",
          manager |-> IF is_tarfile(a) THEN "SlurmTarManager"
                      ELSE "SlurmSnapManager"]

\* a SlurmOpsManager is constructed for key with the artifact a attached
detect_resource(a, key) ==
    \E r \in {DetectResult(a, key)} :
      /\ impl = "ops"
      /\ component' = IF r.outcome = "ok" THEN key ELSE component
      /\ last' = [Call("SlurmOpsManager", "", NoContext, NoContext,
                       r.outcome, <<>>, r.manager) EXCEPT !.arg = <<a, key>>]
      /\ UNCHANGED <<impl, template_exists, conf, munge_key_file, active,
                     slurm_installed, slurm_version_set, slurm_started>>
      /\ UNCHANGED <<installer_vars, writer_vars, addons>>

NextDetect ==
    \E a \in Artifacts, key \in {"slurmd", "slurmdbd", "munge"} :
       detect_resource(a, key)

SpecDetect == Init /\ [][NextDetect]_vars

Detected(c) == c.op = "SlurmOpsManager"

\* C21 as claimed: the tar installer is selected if and only if the
\* artifact is a tar archive, the snap installer if and only if it is a
\* snap package; an artifact that is neither or cannot be read raises and
\* selects no installer.
C21_InstallerByArtifactKind ==
    (Detected(last) /\ last.arg[2] \in Components)
    => LET a == last.arg[1]
           tar == a.readable /\ a.format \in {"tar", "tar.gz"}
           snap == a.readable /\ a.format = "squashfs"
       IN /\ last.ret = "SlurmTarManager" <=> tar
          /\ last.ret = "SlurmSnapManager" <=> snap
          /\ (~tar /\ ~snap)
             => /\ last.outcome # "ok"
                /\ last.ret = "none"

\* C21 as amended: for a supported component the tar installer is selected
\* if and only if the artifact is a readable tar archive, and the snap
\* installer for every other readable artifact, a snap package or not; when
\* the resource cannot be fetched or opened the constructor raises and
\* selects no installer.
C21_TarElseSnap ==
    (Detected(last) /\ last.arg[2] \in Components)
    => LET a == last.arg[1]
           tar == a.readable /\ a.format \in {"tar", "tar.gz"}
       IN /\ last.ret = "SlurmTarManager" <=> tar
          /\ last.ret = "SlurmSnapManager" <=> (a.readable /\ ~tar)
          /\ ~a.readable
             => /\ last.outcome \in {"ModelError", "OSError"}
                /\ last.ret = "none"

C21_Witness ==
    /\ Detected(last)
    /\ last.arg[1].format = "text"
    /\ last.ret = "SlurmSnapManager"

(***************************************************************************)
(* The add-on installers: Infiniband, NvidiaGPU, MPI, Singularity          *)
(***************************************************************************)
\* ID of /etc/os-release
Distributions == {"ubuntu", "centos", "debian"}

SupportedOS(os) == os \in {"ubuntu", "centos"}

AddonResult(outcome, events, ret, st) ==
    [outcome |-> outcome, events |-> events, ret |-> ret, st |-> st]

\* Infiniband.repository setter; on an unsupported distribution
\* ib_repo_path and ib_default_repo are the empty string
IbSetRepository(os, st, repo, key_ok) ==
    IF ~SupportedOS(os)
    THEN AddonResult(IF repo # "" THEN "IsADirectoryError"
                     ELSE "FileNotFoundError", <<>>, "none", st)
    ELSE IF repo # ""
    THEN AddonResult("ok", <<Ev("write_text", repo, "ib_repo_path")>>,
                     "none",
                     [st EXCEPT !.ib_repo_file = repo,
                                !.ib_repo_configured = TRUE])
    ELSE IF os = "ubuntu"
    THEN AddonResult("ok",
                     <<Ev("copyfile", "ib_default_repo", "ib_repo_path"),
                       Ev("curl", "", "/tmp/mellanox.gpg"),
                       Ev("apt-key", "add", "/tmp/mellanox.gpg")>>,
                     IF key_ok THEN "none" ELSE "-1",
                     [st EXCEPT !.ib_repo_file = "default",
                                !.ib_repo_configured =
                                    IF key_ok THEN TRUE ELSE @])
    ELSE AddonResult("ok",
                     <<Ev("copyfile", "ib_default_repo", "ib_repo_path")>>,
                     "none",
                     [st EXCEPT !.ib_repo_file = "default",
                                !.ib_repo_configured = TRUE])

\* Infiniband.install
IbInstall(os, st, key_ok) ==
    LET r == IF ~st.ib_repo_configured
             THEN IbSetRepository(os, st, "", key_ok)
             ELSE AddonResult("ok", <<>>, "none", st)
    IN IF r.outcome # "ok" THEN r
       ELSE IF ~SupportedOS(os)
       THEN AddonResult("ok", r.events, "-1", r.st)
       ELSE AddonResult("ok",
                        r.events
                        \o <<Ev(IF os = "ubuntu" THEN "apt" ELSE "yum",
                                "install", "mlnx-ofed-all")>>,
                        "none", [r.st EXCEPT !.ib_installed = TRUE])

\* NvidiaGPU.repository setter
GpuSetRepository(os, st, repo) ==
    IF repo # ""
    THEN IF ~SupportedOS(os)
         THEN AddonResult("IsADirectoryError", <<>>, "none", st)
         ELSE AddonResult("ok",
                          <<Ev("write_text", repo, "gpu_repo_path")>>,
                          "none",
                          [st EXCEPT !.gpu_repo_file = repo,
                                     !.gpu_repo_configured = TRUE])
    ELSE CASE os = "ubuntu" ->
                AddonResult("ok",
                            <<Ev("write_text", "default", "gpu_repo_path"),
                              Ev("curl", "", "nvidia_gpu-pin-600"),
                              Ev("apt-key", "adv", "7fa2af80.pub"),
                              Ev("apt-get", "update", "")>>,
                            "none",
                            [st EXCEPT !.gpu_repo_file = "default",
                                       !.gpu_repo_configured = TRUE])
           [] os = "centos" ->
                AddonResult("ok",
                            <<Ev("yum-config-manager", "--add-repo",
                                 "cuda-rhel7.repo"),
                              Ev("yum", "clean", "expire-cache")>>,
                            "none",
                            [st EXCEPT !.gpu_repo_file = "default",
                                       !.gpu_repo_configured = TRUE])
           [] OTHER ->
                AddonResult("ok", <<>>, "none",
                            [st EXCEPT !.gpu_repo_configured = TRUE])

\* NvidiaGPU.install
GpuInstall(os, st) ==
    LET r == IF ~st.gpu_repo_configured THEN GpuSetRepository(os, st, "")
             ELSE AddonResult("ok", <<>>, "none", st)
        uname == <<Ev("uname", "-r", "")>>
    IN IF r.outcome # "ok" THEN r
       ELSE IF ~SupportedOS(os)
       THEN \* cmds[os_] in the logging call
            AddonResult("KeyError", r.events \o uname, "none", r.st)
       ELSE AddonResult("ok",
                        r.events \o uname
                        \o <<Ev(IF os = "ubuntu" THEN "apt-get" ELSE "yum",
                                "install", "gpu_package_name")>>,
                        "none", [r.st EXCEPT !.gpu_installed = TRUE])

\* MPI.install; rc is the exit code of the package manager
MpiInstall(os, st, rc) ==
    IF ~SupportedOS(os) THEN AddonResult("KeyError", <<>>, "none", st)
    ELSE LET pkg == <<Ev(IF os = "ubuntu" THEN "apt-get" ELSE "yum",
                         "install", "mpich")>>
         IN IF rc # 0 THEN AddonResult("ok", pkg, "none", st)
            ELSE AddonResult("ok",
                             pkg \o (IF os = "centos"
                                     THEN <<Ev("append", "", "/etc/bashrc")>>
                                     ELSE <<>>),
                             "none", [st EXCEPT !.mpi_installed = TRUE])

\* Singularity.install
SingularityInstall(os, st) ==
    IF ~SupportedOS(os) THEN AddonResult("KeyError", <<>>, "none", st)
    ELSE AddonResult("ok",
                     <<Ev(IF os = "ubuntu" THEN "apt-get" ELSE "yum",
                          IF os = "ubuntu" THEN "install"
                          ELSE "localinstall", "resource_path")>>,
                     "none", st)

\* one call of an add-on installer with result r
AddonCall(op, arg, r) ==
    /\ addons' = r.st
    /\ last' = [Call(op, "", NoContext, NoContext, r.outcome, r.events,
                     r.ret) EXCEPT !.arg = arg]
    /\ UNCHANGED <<impl, component, template_exists, conf, munge_key_file,
                   active, slurm_installed, slurm_version_set,
                   slurm_started>>
    /\ UNCHANGED <<installer_vars, writer_vars>>

ib_set_repository(repo, key_ok) ==
    AddonCall("Infiniband.repository", <<repo>>,
              IbSetRepository(os_release, addons, repo, key_ok))

ib_install(key_ok) ==
    AddonCall("Infiniband.install", <<>>,
              IbInstall(os_release, addons, key_ok))

gpu_set_repository(repo) ==
    AddonCall("NvidiaGPU.repository", <<repo>>,
              GpuSetRepository(os_release, addons, repo))

gpu_install ==
    AddonCall("NvidiaGPU.install", <<>>, GpuInstall(os_release, addons))

mpi_install(rc) ==
    AddonCall("MPI.install", <<>>, MpiInstall(os_release, addons, rc))

singularity_install ==
    AddonCall("Singularity.install", <<>>,
              SingularityInstall(os_release, addons))

\* a slurmd host of any distribution with no add-on installed
InitAddons ==
    /\ impl = "base"
    /\ component = "slurmd"
    /\ template_exists = TRUE
    /\ conf = AbsentFile
    /\ munge_key_file = <<>>
    /\ active = FALSE
    /\ slurm_installed = FALSE
    /\ slurm_version_set = FALSE
    /\ slurm_started = FALSE
    /\ last = Call("__init__", "", NoContext, NoContext, "ok", <<>>, "none")
    /\ os_release \in Distributions
    /\ accounts = {}
    /\ files = {}
    /\ unit_enabled = FALSE
    /\ setup_pc = "idle"
    /\ polls = 0
    /\ write_pc = "idle"
    /\ pending = NoPending
    /\ seen = "none"
    /\ addons = NoAddons

NextAddons ==
    \/ \E repo \in {"", "custom"}, key_ok \in BOOLEAN :
         ib_set_repository(repo, key_ok)
    \/ \E key_ok \in BOOLEAN : ib_install(key_ok)
    \/ \E repo \in {"", "custom"} : gpu_set_repository(repo)
    \/ gpu_install
    \/ \E rc \in {0, 1} : mpi_install(rc)
    \/ singularity_install

SpecAddons == InitAddons /\ [][NextAddons]_vars

AddonInstalls ==
    {"Infiniband.install", "NvidiaGPU.install", "MPI.install",
     "Singularity.install"}

IsPackageManager(e) ==
    e.cmd \in {"apt", "apt-get", "yum", "yum-config-manager"}

\* C22: on a distribution that is neither ubuntu nor centos, install() of
\* an add-on installer raises, runs no package manager command and leaves
\* the persisted flags as they were.
C22_UnsupportedOSInstallRaises ==
    [][(os_release \notin {"ubuntu", "centos"}
        /\ last'.op \in AddonInstalls)
       => /\ last'.outcome # "ok"
          /\ \A j \in DOMAIN last'.events :
                ~IsPackageManager(last'.events[j])
          /\ addons'.ib_installed = addons.ib_installed
          /\ addons'.gpu_installed = addons.gpu_installed
          /\ addons'.mpi_installed = addons.mpi_installed
          /\ addons'.ib_repo_configured = addons.ib_repo_configured
          /\ addons'.gpu_repo_configured = addons.gpu_repo_configured]_vars

(***************************************************************************)
(* slurm_is_active                                                         *)
(***************************************************************************)
\* the active states systemd reports for a unit; `systemctl is-active`
\* prints the state and exits with 0 for "active" and for "reloading",
\* with 3 for the others
UnitStates(is_active) ==
    IF is_active THEN {"active", "reloading"}
    ELSE {"inactive", "failed", "activating"}

IsActiveExit(state) == IF state \in {"active", "reloading"} THEN 0 ELSE 3

\* slurm_is_active: slurm_ops_base.py compares the text check_output
\* returned with 'active' and turns CalledProcessError into False;
\* slurm_ops.py compares the exit code subprocess.call returned with 0
SlurmIsActive(i, state) ==
    IF i = "base"
    THEN IF IsActiveExit(state) # 0 THEN "False"
         ELSE IF state = "active" THEN "True" ELSE "False"
    ELSE IF IsActiveExit(state) = 0 THEN "True" ELSE "False"

slurm_is_active(state) ==
    /\ impl \in {"base", "ops"}
    /\ last' = [Call("slurm_is_active", "is-active", NoContext, NoContext,
                     "ok", <<Ev("systemctl", "is-active", "slurm")>>,
                     SlurmIsActive(impl, state))
                  EXCEPT !.arg = <<state, IsActiveExit(state)>>]
    /\ UNCHANGED <<impl, component, template_exists, conf, munge_key_file,
                   active, slurm_installed, slurm_version_set,
                   slurm_started>>
    /\ UNCHANGED <<installer_vars, writer_vars, addons>>

\* the unit changes state under systemd
unit_changes ==
    /\ active' = ~active
    /\ UNCHANGED <<impl, component, template_exists, conf, munge_key_file,
                   slurm_installed, slurm_version_set, slurm_started, last>>
    /\ UNCHANGED <<installer_vars, writer_vars, addons>>

NextActive ==
    \/ \E state \in UnitStates(active) : slurm_is_active(state)
    \/ unit_changes

SpecActive == Init /\ [][NextActive]_vars

\* C23: slurm_is_active returns a boolean and never raises: True if and
\* only if 'systemctl is-active <unit>' exits with code 0.
C23_ActiveIffExitZero ==
    last.op = "slurm_is_active"
    => /\ last.outcome = "ok"
       /\ last.ret \in {"True", "False"}
       /\ last.ret = "True" <=> last.arg[2] = 0

(***************************************************************************)
(* slurm_cmd                                                               *)
(***************************************************************************)
\* self._slurm_cmds
slurm_cmds ==
    <<"sacct", "sacctmgr", "salloc", "sattach", "sbatch", "sbcast",
      "scancel", "scontrol", "sdiag", "sinfo", "sprio", "squeue", "sreport",
      "srun", "sshare", "sstat", "strigger">>

\* names a caller may pass that are not in the list
OtherCommands == {"rm", "bash", "slurmd", "SINFO", "scontrol;rm", ""}

\* slurm_cmd running whatever it is given
SlurmCmd_unchecked(command, rc) ==
    [events |-> <<Run(command, "arg_string", rc)>>,
     ret |-> IF rc = 0 THEN "0" ELSE "nonzero"]

\* slurm_cmd: -1 for a name outside the list, else the exit code of the
\* subprocess
SlurmCmd(command, rc) ==
    IF command \notin Range(slurm_cmds)
    THEN [events |-> <<>>, ret |-> "-1"]
    ELSE [events |-> <<Run(command, "arg_string", rc)>>,
          ret |-> IF rc = 0 THEN "0" ELSE "nonzero"]

slurm_cmd(command, rc) ==
    \E r \in {SlurmCmd(command, rc)} :
      /\ impl = "base"
      /\ last' = [Call("slurm_cmd", "", NoContext, NoContext, "ok",
                       r.events, r.ret) EXCEPT !.arg = <<command>>]
      /\ UNCHANGED <<impl, component, template_exists, conf,
                     munge_key_file, active, slurm_installed,
                     slurm_version_set, slurm_started>>
      /\ UNCHANGED <<installer_vars, writer_vars, addons>>

NextCmd ==
    \E command \in Range(slurm_cmds) \cup OtherCommands, rc \in {0, 1} :
       slurm_cmd(command, rc)

SpecCmd == Init /\ [][NextCmd]_vars

\* the Slurm command line tools the list is documented to hold
SlurmCliTools ==
    {"sacct", "sacctmgr", "salloc", "sattach", "sbatch", "sbcast",
     "scancel", "scontrol", "sdiag", "sinfo", "sprio", "squeue", "sreport",
     "srun", "sshare", "sstat", "strigger"}

\* C24: slurm_cmd spawns a subprocess only for a name of the fixed list of
\* Slurm tools, and the subprocess it spawns is that tool; for every other
\* name it spawns nothing and returns -1.
C24_SlurmCmdAllowList ==
    last.op = "slurm_cmd"
    => /\ last.outcome = "ok"
       /\ \A j \in DOMAIN last.events :
             /\ last.events[j].cmd = last.arg[1]
             /\ last.arg[1] \in SlurmCliTools
       /\ last.arg[1] \notin SlurmCliTools
          => /\ last.events = <<>>
             /\ last.ret = "-1"

C24_Witness ==
    /\ last.op = "slurm_cmd"
    /\ last.arg = <<"scontrol;rm">>
    /\ last.events = <<>>
    /\ last.ret = "-1"

\* C25: write_munge_key decodes the text, writes the bytes to the munge key
\* path and then chmods the key file; after it returns the file holds the
\* decoded bytes.
C25_WriteMungeKeyDecodeWriteChmod ==
    (last.op = "write_munge_key" /\ last.outcome = "ok")
    => /\ munge_key_file = b64decode(last.arg)
       /\ \E j, k \in DOMAIN last.events :
             /\ j < k
             /\ last.events[j].cmd = "write_bytes"
             /\ last.events[k].cmd = "chmod"
             /\ last.events[k].target = "munge_key"

(***************************************************************************)
(* check_munged / handle_restart_munged                                    *)
(***************************************************************************)
\* the states of the munge unit
MungeStates == UnitStates(TRUE) \cup UnitStates(FALSE)

\* 'active' in status: the printed state has the word as a substring
ContainsActive(status) == status \in {"active", "inactive"}

\* _is_active_munged: check_output raises on a non-zero exit code, which is
\* turned into False
IsActiveMunged(state) ==
    [events |-> <<Ev("systemctl", "is-active", "munge")>>,
     ret |-> IsActiveExit(state) = 0 /\ ContainsActive(state)]

\* what 'munge -n | unmunge' may print, or "ENOENT": the tools are not
\* installed and Popen raises
SelfTests ==
    {"STATUS: Success (0)", "STATUS: Invalid credential (-9)", "", "ENOENT"}

\* "Success" in output.decode()
ContainsSuccess(output) == output = "STATUS: Success (0)"

SelfTest(selftest) ==
    IF selftest = "ENOENT"
    THEN [outcome |-> "FileNotFoundError",
          events |-> <<Ev("munge", "-n", "")>>, ret |-> "none"]
    ELSE [outcome |-> "ok",
          events |-> <<Ev("munge", "-n", ""), Ev("unmunge", "", "")>>,
          ret |-> IF ContainsSuccess(selftest) THEN "True" ELSE "False"]

\* check_munged running the self-test whatever the unit's state
CheckMunged_no_active_check(state, selftest) ==
    LET a == IsActiveMunged(state)
        t == SelfTest(selftest)
    IN [outcome |-> t.outcome, events |-> a.events \o t.events,
        ret |-> t.ret]

\* check_munged
CheckMunged(state, selftest) ==
    LET a == IsActiveMunged(state)
        t == SelfTest(selftest)
    IN IF ~a.ret
       THEN [outcome |-> "ok", events |-> a.events, ret |-> "False"]
       ELSE [outcome |-> t.outcome, events |-> a.events \o t.events,
             ret |-> t.ret]

\* handle_restart_munged; rc is the exit code of systemctl restart
HandleRestartMunged(rc, state, selftest) ==
    LET restart == <<Run("systemctl", "restart munge", rc)>>
        c == CheckMunged(state, selftest)
    IN IF rc # 0
       THEN [outcome |-> "ok", events |-> restart, ret |-> "False"]
       ELSE [outcome |-> c.outcome, events |-> restart \o c.events,
             ret |-> c.ret]

MungeCall(op, arg, r) ==
    /\ impl = "base"
    /\ last' = [Call(op, "", NoContext, NoContext, r.outcome, r.events,
                     r.ret) EXCEPT !.arg = arg]
    /\ UNCHANGED <<impl, component, template_exists, conf, munge_key_file,
                   active, slurm_installed, slurm_version_set,
                   slurm_started>>
    /\ UNCHANGED <<installer_vars, writer_vars, addons>>

check_munged(state, selftest) ==
    MungeCall("check_munged", <<state, selftest, 0>>,
              CheckMunged(state, selftest))

handle_restart_munged(rc, state, selftest) ==
    MungeCall("handle_restart_munged", <<state, selftest, rc>>,
              HandleRestartMunged(rc, state, selftest))

NextMungeCheck ==
    \/ \E state \in MungeStates, selftest \in SelfTests :
         check_munged(state, selftest)
    \/ \E rc \in {0, 1}, state \in MungeStates, selftest \in SelfTests :
         handle_restart_munged(rc, state, selftest)

SpecMungeCheck == Init /\ [][NextMungeCheck]_vars

IsSelfTest(e) == e.cmd \in {"munge", "unmunge"}

\* C26: the munge health check returns True if and only if the munge unit
\* is active and the output of 'munge -n | unmunge' holds the success
\* marker; when the unit is not active the self-test is not run; and
\* handle_restart_munged returns False with neither the state query nor
\* the self-test run when the restart command fails.
C26_MungeHealthCheck ==
    /\ last.op \in {"check_munged", "handle_restart_munged"}
       => LET state == last.arg[1]
              selftest == last.arg[2]
              checked == last.op = "check_munged" \/ last.arg[3] = 0
          IN /\ last.ret = "True"
                <=> /\ checked
                    /\ state = "active"
                    /\ selftest = "STATUS: Success (0)"
             /\ state # "active"
                => \A j \in DOMAIN last.events : ~IsSelfTest(last.events[j])
    /\ (last.op = "handle_restart_munged" /\ last.arg[3] # 0)
       => /\ last.ret = "False"
          /\ Len(last.events) = 1
          /\ last.events[1].cmd = "systemctl"
          /\ last.events[1].target = "restart munge"

C26_Witness ==
    /\ last.op = "handle_restart_munged"
    /\ last.arg = <<"active", "STATUS: Success (0)", 1>>
    /\ last.ret = "False"

\* C27: slurm_installed is False until the first install, becomes True
\* only in an install whose setup sequence has returned, and no later
\* operation, a later install that raises included, sets it back to False.
C27_InstallFlagNeverReset ==
    /\ ~slurm_installed
    /\ [][/\ slurm_installed => slurm_installed'
          /\ (~slurm_installed /\ slurm_installed')
             => /\ last'.op = "prepare_system_for_slurm"
                /\ last'.outcome = "ok"
                /\ Ev("setup_system", "", "host") \in Range(last'.events)
          /\ (~slurm_installed /\ last'.op # "prepare_system_for_slurm")
             => ~slurm_installed']_vars

C27_Witness ==
    /\ slurm_installed
    /\ last.op = "prepare_system_for_slurm"
    /\ last.outcome = "raised"

\* the number of set_workload_version calls among the events of a call
VersionReports(c) ==
    Cardinality({k \in DOMAIN c.events :
                   c.events[k] = Ev("set_workload_version", "", "unit")})

\* C28: across render_config_and_restart calls the workload version is
\* reported at most once: set_workload_version is called only in a call
\* that found the service active after the restarts, with slurm_version_set
\* still False and the config file in place; that call sets
\* slurm_version_set, the flag stays True, and no later call reports again.
C28_VersionReportedOnce ==
    [][/\ VersionReports(last') > 0
          => /\ last'.op = "render_config_and_restart"
             /\ last'.recheck = "active"
             /\ ~slurm_version_set
             /\ conf'.exists
             /\ VersionReports(last') = 1
             /\ slurm_version_set'
       /\ slurm_version_set
          => (slurm_version_set' /\ VersionReports(last') = 0)
       /\ (~slurm_version_set /\ slurm_version_set')
          => VersionReports(last') = 1]_vars

C28_Witness ==
    /\ slurm_version_set
    /\ last.op = "render_config_and_restart"
    /\ last.outcome = "ok"
    /\ last.recheck = "active"
    /\ conf.exists
    /\ VersionReports(last) = 0

\* the driver package command of Infiniband.install
IsIbPackageInstall(e) ==
    e \in {Ev("apt", "install", "mlnx-ofed-all"),
           Ev("yum", "install", "mlnx-ofed-all")}

\* C29: Infiniband.install() never runs the driver package command while
\* ib_repo_configured is False: with no repository configured before, the
\* default repository is copied first and the flag is True when the
\* package command runs; a custom repository configured before is not
\* overwritten with the default.
C29_IbInstallAfterRepository ==
    [][last'.op = "Infiniband.install"
       => /\ \A k \in DOMAIN last'.events :
               IsIbPackageInstall(last'.events[k])
               => /\ addons'.ib_repo_configured
                  /\ ~addons.ib_repo_configured
                     => \E j \in 1..(k - 1) :
                          last'.events[j]
                            = Ev("copyfile", "ib_default_repo",
                                 "ib_repo_path")
          /\ (addons.ib_repo_configured /\ addons.ib_repo_file = "custom")
             => addons'.ib_repo_file = "custom"]_vars

\* the texts a second write_slurm_config call with the same mapping
\* object writes: the object is then what the first call left of it
SecondRender(c) ==
    {RenderAndWrite(impl, component, c.context_after, order, conf).conf.text :
        order \in ParameterOrders(impl, c.context_after)}

\* C30: write_slurm_config leaves the caller's context mapping as it was,
\* and a second call with the same mapping object renders the same
\* configuration as the first.
C30_ContextLeftUnchanged ==
    (last.op = "write_slurm_config" /\ last.outcome = "ok")
    => /\ last.context_after = last.context
       /\ SecondRender(last) = {conf.text}

====
